---- MODULE Spec2Model ----
(***************************************************************************)
(* Model of fast_mmaped_file_rs: the record codec (raw_entry.rs), the      *)
(* growable mmapped region (mmap.rs, mmap/inner.rs) and the aggregate map  *)
(* (map.rs, file_entry.rs).                                                *)
(*                                                                         *)
(* Conventions.  A byte buffer is a sequence of naturals in 0..255; the    *)
(* byte at Rust offset o is buf[o + 1].  Native byte order is modelled as  *)
(* little-endian.  A Result is a record with an `ok` flag and either a     *)
(* `val` or an `err` field.                                                *)
(***************************************************************************)
EXTENDS Integers, Sequences, FiniteSets, Bags, TLC

VARIABLES
    \* ---- record codec harness (raw_entry.rs) ----
    cpc,        \* "off" | "init" | "saved" | "damaged" | "decoded" | "decoded_damaged"
    cbuf,       \* the destination buffer
    cbuf0,      \* history: the buffer as it was handed to save
    ckey,       \* key bytes handed to save
    cval,       \* value handed to save
    csave,      \* Result of RawEntry::save
    cdec,       \* Result of RawEntry::from_slice with json/value/total_len read out
    \* ---- growable region (mmap.rs, mmap/inner.rs) ----
    callers,    \* the callers (threads) operating on the one MmapedFile
    file,       \* bytes of the backing file; the mapping is file[0..cap)
    slot,       \* the Option<InnerMmap> inside the RwLock: some, cap, len
    lock,       \* the RwLock: w = writer (0 = none), r = set of readers
    positions,  \* the caller-owned positions hash: key -> value offset
    pc,         \* per caller: position in the running operation
    op,         \* per caller: the running operation and its arguments
    loc,        \* per caller: local variables of the running operation
    ret,        \* per caller: Result of the operation that returned last
    nops,       \* number of operations started so far
    order,      \* history: keys in the order their records were appended
    expect,     \* history: value last written for each key by fetch/upsert
    snap,       \* history: used and values read right before the last growth,
                \* and the targets of the expand_to_fit calls that returned Ok
    \* ---- aggregate map (map.rs, file_entry.rs) ----
    phase,      \* "off" | "map" (EntryMap alive) | "sorted" (into_sorted returned)
    emap,       \* the EntryMap: EntryData -> EntryMetadata
    sorted,     \* the Vec<FileEntry> into_sorted returned
    nrecs,      \* number of records handed to merge_or_store so far
    hist        \* history: bag of the records merged so far

codecVars == <<cpc, cbuf, cbuf0, ckey, cval, csave, cdec>>

regionVars == <<callers, file, slot, lock, positions, pc, op, loc, ret, nops,
                order, expect, snap>>

aggVars == <<phase, emap, sorted, nrecs, hist>>

vars == <<cpc, cbuf, cbuf0, ckey, cval, csave, cdec,
          callers, file, slot, lock, positions, pc, op, loc, ret, nops,
          order, expect, snap,
          phase, emap, sorted, nrecs, hist>>

----------------------------------------------------------------------------
(* Bounds of the model *)

MaxKeyLen == 7
MaxBufLen == 34
MaxVal == 3
MaxCallers == 2
MaxOps == 4
MaxConcOps == 2
PageSize == 16

Values == 0..MaxVal

----------------------------------------------------------------------------
(* Program constants *)

HEADER_SIZE == 8
SIZE_U32 == 4
SIZE_F64 == 8
I32_MAX == 2147483647
SPACE == 32

----------------------------------------------------------------------------
(* Results *)

Ok(v) == [ok |-> TRUE, val |-> v]
Err(e) == [ok |-> FALSE, err |-> e]

----------------------------------------------------------------------------
(* Byte helpers *)

Pow2(n) == IF n = 0 THEN 1 ELSE 2 ^ n

Min(a, b) == IF a < b THEN a ELSE b

\* Rust buf[a..b]; the callers below check the bounds first
Slice(buf, a, b) == SubSeq(buf, Min(a, Len(buf)) + 1, Min(b, Len(buf)))

\* Rust buf[off..off + data.len()].copy_from_slice(data)
WriteAt(buf, off, data) ==
    [i \in 1..Len(buf) |->
        IF i > off /\ i <= off + Len(data) THEN data[i - off] ELSE buf[i]]

Fill(n, b) == [i \in 1..n |-> b]

\* u32::to_ne_bytes for values below 2^31
u32_to_ne_bytes(n) ==
    <<n % 256, (n \div 256) % 256, (n \div 65536) % 256, (n \div 16777216) % 256>>

\* u32::from_ne_bytes, returned as the top bit and the low 31 bits
u32_from_ne_bytes(b) ==
    [hi |-> b[4] \div 128,
     lo |-> b[1] + 256 * b[2] + 65536 * b[3] + 16777216 * (b[4] % 128)]

\* floor(log2 v) for v >= 1
RECURSIVE Log2(_)
Log2(v) == IF v <= 1 THEN 0 ELSE 1 + Log2(v \div 2)

\* The upper 32 bits of the IEEE-754 binary64 pattern of the integer-valued
\* double v >= 0 (v < 2^20, so that the lower 32 bits are all zero).
F64HiWord(v) ==
    IF v = 0 THEN 0
    ELSE LET e == Log2(v)
         IN  (1023 + e) * 1048576 + (v - Pow2(e)) * Pow2(20 - e)

\* f64::to_ne_bytes
f64_to_ne_bytes(v) ==
    LET h == F64HiWord(v)
    IN  <<0, 0, 0, 0, h % 256, (h \div 256) % 256, (h \div 65536) % 256,
          (h \div 16777216) % 256>>

\* every double that is not one of the integers 0 .. 2^20 - 1
OtherF64 == -1

\* f64::from_ne_bytes: an integer-valued double comes back as that integer,
\* every other bit pattern as OtherF64.
f64_from_ne_bytes(b) ==
    LET lowZero == b[1] = 0 /\ b[2] = 0 /\ b[3] = 0 /\ b[4] = 0
        h == b[5] + 256 * b[6] + 65536 * b[7] + 16777216 * (b[8] % 128)
        e == (h \div 1048576) - 1023
        frac == h % 1048576
    IN  IF lowZero /\ b[8] < 128 /\ h = 0 THEN 0
        ELSE IF lowZero /\ b[8] < 128 /\ e >= 0 /\ e <= 19
                /\ frac % Pow2(20 - e) = 0
             THEN Pow2(e) + frac \div Pow2(20 - e)
             ELSE OtherF64

----------------------------------------------------------------------------
(* util.rs *)

read_u32(buf, offset) ==
    IF offset + SIZE_U32 <= Len(buf)
    THEN Ok(u32_from_ne_bytes(Slice(buf, offset, offset + SIZE_U32)))
    ELSE Err("OutOfBounds")

read_f64(buf, offset) ==
    IF offset + SIZE_F64 <= Len(buf)
    THEN Ok(f64_from_ne_bytes(Slice(buf, offset, offset + SIZE_F64)))
    ELSE Err("OutOfBounds")

----------------------------------------------------------------------------
(* raw_entry.rs *)

padding_len_mod(encoded_len) == (8 - ((SIZE_U32 + encoded_len) % 8)) % 8

\* RawEntry::padding_len
padding_len(encoded_len) == 8 - ((SIZE_U32 + encoded_len) % 8)

check_encoded_len(encoded_len) ==
    IF encoded_len > I32_MAX THEN Err("KeyLength") ELSE Ok(TRUE)

calc_value_offset(encoded_len) ==
    IF ~check_encoded_len(encoded_len).ok THEN Err("KeyLength")
    ELSE Ok(SIZE_U32 + encoded_len + padding_len(encoded_len))

calc_total_len(encoded_len) ==
    LET vo == calc_value_offset(encoded_len)
    IN  IF ~vo.ok THEN vo ELSE Ok(vo.val + SIZE_F64)

save_writes_then_checks(bytes, key, value) ==
    LET total_len == calc_total_len(Len(key))
        b1 == WriteAt(bytes, 0, u32_to_ne_bytes(Len(key)))
    IN  IF ~total_len.ok THEN [res |-> total_len, buf |-> bytes]
        ELSE IF total_len.val > Len(bytes)
        THEN [res |-> Err("Other"), buf |-> b1]
        ELSE LET b2 == WriteAt(b1, SIZE_U32, key)
                 pad_len == padding_len(Len(key))
                 b3 == WriteAt(b2, SIZE_U32 + Len(key), Fill(pad_len, SPACE))
                 b4 == WriteAt(b3, SIZE_U32 + Len(key) + pad_len,
                               f64_to_ne_bytes(value))
             IN  [res |-> calc_value_offset(Len(key)), buf |-> b4]

\* RawEntry::save: the Result and the buffer it leaves behind
save(bytes, key, value) ==
    LET total_len == calc_total_len(Len(key))
    IN  IF ~total_len.ok THEN [res |-> total_len, buf |-> bytes]
        ELSE IF total_len.val > Len(bytes)
        THEN [res |-> Err("Other"), buf |-> bytes]
        ELSE LET b1 == WriteAt(bytes, 0, u32_to_ne_bytes(Len(key)))
                 b2 == WriteAt(b1, SIZE_U32, key)
                 pad_len == padding_len(Len(key))
                 b3 == WriteAt(b2, SIZE_U32 + Len(key), Fill(pad_len, SPACE))
                 b4 == WriteAt(b3, SIZE_U32 + Len(key) + pad_len,
                               f64_to_ne_bytes(value))
             IN  [res |-> calc_value_offset(Len(key)), buf |-> b4]

\* RawEntry::from_slice: the entry holds the bytes after the length field,
\* cut at the end of the entry, and the encoded length.
from_slice(bytes) ==
    LET hdr == read_u32(bytes, 0)
    IN  IF ~hdr.ok THEN hdr
        ELSE IF hdr.val.hi = 1 THEN Err("KeyLength")
        ELSE LET encoded_len == hdr.val.lo
                 total_len == calc_total_len(encoded_len)
             IN  \* total_len > encoded_len: decided here to keep the sums small
                 IF encoded_len > Len(bytes) THEN Err("OutOfBounds")
                 ELSE IF ~total_len.ok THEN total_len
                 ELSE IF total_len.val > Len(bytes) THEN Err("OutOfBounds")
                 ELSE Ok([bytes |-> Slice(bytes, SIZE_U32, total_len.val),
                          encoded_len |-> encoded_len])

value_before_padding(entry) ==
    read_f64(entry.bytes, entry.encoded_len).val

\* RawEntry::value
value(entry) ==
    read_f64(entry.bytes, entry.encoded_len + padding_len(entry.encoded_len)).val

json_with_padding(entry) ==
    Slice(entry.bytes, 0, entry.encoded_len + padding_len(entry.encoded_len))

\* RawEntry::json
json(entry) == Slice(entry.bytes, 0, entry.encoded_len)

total_len_key_only(entry) == entry.encoded_len

\* RawEntry::total_len
total_len(entry) == calc_total_len(entry.encoded_len).val

----------------------------------------------------------------------------
(* Growable region: state *)

NoPos == -1
NoVal == -1
NoInner == [some |-> FALSE, cap |-> 0, len |-> 0]
NoLoc == [pos |-> 0, used |-> 0, entry_len |-> 0, target |-> 0, new_cap |-> 0,
          from |-> "none", held |-> NoInner]
NoOp == [name |-> "none", key |-> <<>>, val |-> 0]
NoSnap == [used |-> 0, vals |-> <<>>, fit |-> {}]

RegionKeys == {<<>>, <<97>>, <<98, 99, 100, 101>>}
AllCallers == 1..MaxCallers

\* the inputs of the operations: fewer when callers run concurrently
Sequential == callers = {1}
OpBound == IF Sequential THEN MaxOps ELSE MaxConcOps
CallKeys == IF Sequential THEN RegionKeys ELSE {<<97>>, <<98, 99, 100, 101>>}
CallValues == IF Sequential THEN Values ELSE {1}
Targets == IF Sequential THEN {HEADER_SIZE, 3 * HEADER_SIZE, 4 * HEADER_SIZE}
           ELSE {4 * HEADER_SIZE}

\* The region part of the state when only another component is exercised.
RegionOff ==
    /\ callers = {}
    /\ file = <<>>
    /\ slot = NoInner
    /\ lock = [w |-> 0, r |-> {}]
    /\ positions = <<>>
    /\ pc = <<>>
    /\ op = <<>>
    /\ loc = <<>>
    /\ ret = <<>>
    /\ nops = 0
    /\ order = <<>>
    /\ expect = <<>>
    /\ snap = NoSnap

\* The codec harness part of the state when only another component is exercised.
CodecOff ==
    /\ cpc = "off" /\ cbuf = <<>> /\ cbuf0 = <<>> /\ ckey = <<>> /\ cval = 0
    /\ csave = Err("none") /\ cdec = Err("none")

\* The aggregate map part of the state when only another component is exercised.
AggOff ==
    /\ phase = "off"
    /\ emap = <<>>
    /\ sorted = <<>>
    /\ nrecs = 0
    /\ hist = EmptyBag

\* The bytes visible through the mapping.
Map == Slice(file, 0, slot.cap)

----------------------------------------------------------------------------
(* mmap/inner.rs: the closures run on the InnerMmap while the lock is held.
   Each takes the inner object and the file and gives the Result (and the
   file, when it writes through the mapping). *)

\* InnerMmap::new on a file of file_size bytes: the file is reserved up to
\* the next page boundary, the map covers max(file_size, HEADER_SIZE) bytes.
RECURSIVE next_page_boundary(_, _)
next_page_boundary(page_size, len) ==
    IF page_size < len THEN next_page_boundary(page_size * 2, len) ELSE page_size

InnerMmap_new_no_header_room(file_size) ==
    [inner |-> [some |-> TRUE, cap |-> file_size, len |-> file_size],
     file |-> Fill(next_page_boundary(PageSize, file_size), 0)]

InnerMmap_new(file_size) ==
    [inner |-> [some |-> TRUE,
                cap |-> IF file_size > HEADER_SIZE THEN file_size ELSE HEADER_SIZE,
                len |-> file_size],
     file |-> Fill(next_page_boundary(PageSize, file_size), 0)]

reestablish_fresh_len(map_len) == [some |-> TRUE, cap |-> map_len, len |-> 0]

\* InnerMmap::reestablish
reestablish(map_len) == [some |-> TRUE, cap |-> map_len, len |-> map_len]

\* InnerMmap::capacity
capacity(inner) == inner.cap

\* InnerMmap::load_used
load_used(inner, f) ==
    LET u == read_u32(Slice(f, 0, inner.cap), 0)
    IN  IF ~u.ok THEN u
        ELSE IF u.val.hi = 0 /\ u.val.lo = 0 THEN Ok(HEADER_SIZE)
        ELSE Ok(u.val.lo)

\* InnerMmap::save_used
save_used(inner, f, used) == WriteAt(f, 0, u32_to_ne_bytes(used))

\* InnerMmap::item_range
item_range(inner, start, len) ==
    IF start + len >= capacity(inner) THEN Err("OutOfBounds")
    ELSE Ok(<<start, start + len>>)

\* InnerMmap::load_value
load_value(inner, f, offset) ==
    IF inner.len + SIZE_F64 <= offset THEN Err("OutOfBounds")
    ELSE read_f64(Slice(f, 0, inner.cap), offset)

save_value_before(inner, f, offset, v) ==
    IF inner.len + SIZE_F64 <= offset THEN [res |-> Err("OutOfBounds"), file |-> f]
    ELSE IF offset < HEADER_SIZE THEN [res |-> Err("Other"), file |-> f]
    ELSE LET value_range == item_range(inner, offset, SIZE_F64)
         IN  IF ~value_range.ok THEN [res |-> value_range, file |-> f]
             ELSE [res |-> Ok(TRUE),
                   file |-> WriteAt(f, offset - SIZE_F64, f64_to_ne_bytes(v))]

\* InnerMmap::save_value
save_value(inner, f, offset, v) ==
    IF inner.len + SIZE_F64 <= offset THEN [res |-> Err("OutOfBounds"), file |-> f]
    ELSE IF offset < HEADER_SIZE THEN [res |-> Err("Other"), file |-> f]
    ELSE LET value_range == item_range(inner, offset, SIZE_F64)
         IN  IF ~value_range.ok THEN [res |-> value_range, file |-> f]
             ELSE [res |-> Ok(TRUE), file |-> WriteAt(f, offset, f64_to_ne_bytes(v))]

initialize_entry_relative(inner, f, key, v) ==
    LET current_used == load_used(inner, f)
        entry_length == calc_total_len(Len(key))
        new_used == current_used.val + entry_length.val
        s == save(Slice(f, current_used.val, new_used), key, v)
    IN  IF capacity(inner) < new_used THEN [res |-> Err("Other"), file |-> f]
        ELSE [res |-> s.res,
              file |-> save_used(inner, WriteAt(f, current_used.val, s.buf), new_used)]

initialize_entry_used_first(inner, f, key, v) ==
    LET current_used == load_used(inner, f)
        entry_length == calc_total_len(Len(key))
        new_used == current_used.val + entry_length.val
        f0 == save_used(inner, f, new_used)
    IN  IF capacity(inner) < new_used THEN [res |-> Err("Other"), file |-> f0]
        ELSE LET s == save(Slice(f0, current_used.val, new_used), key, v)
             IN  [res |-> Ok(current_used.val + s.res.val),
                  file |-> WriteAt(f0, current_used.val, s.buf)]

\* InnerMmap::initialize_entry
initialize_entry(inner, f, key, v) ==
    LET current_used == load_used(inner, f)
        entry_length == calc_total_len(Len(key))
    IN  IF ~current_used.ok THEN [res |-> current_used, file |-> f]
        ELSE IF ~entry_length.ok THEN [res |-> entry_length, file |-> f]
        ELSE LET new_used == current_used.val + entry_length.val
             IN  IF capacity(inner) < new_used
                 THEN [res |-> Err("Other"), file |-> f]
                 ELSE LET s == save(Slice(f, current_used.val, new_used), key, v)
                          f1 == WriteAt(f, current_used.val, s.buf)
                      IN  IF ~s.res.ok THEN [res |-> s.res, file |-> f1]
                          ELSE [res |-> Ok(current_used.val + s.res.val),
                                file |-> save_used(inner, f1, new_used)]

\* MmapedFile::expand_file: seek to len - 1 and write one zero byte.
expand_file(f, len) ==
    IF len = 0 THEN [res |-> Err("Overflow"), file |-> f]
    ELSE IF len <= Len(f) THEN [res |-> Ok(TRUE), file |-> WriteAt(f, len - 1, <<0>>)]
    ELSE [res |-> Ok(TRUE), file |-> f \o Fill(len - Len(f), 0)]

double_at_least_once(new_cap, target_cap) ==
    IF new_cap * 2 < target_cap THEN target_cap ELSE new_cap * 2

\* the doubling loop of MmapedFile::expand_to_fit
RECURSIVE double_until(_, _)
double_until(new_cap, target_cap) ==
    IF new_cap < target_cap THEN double_until(new_cap * 2, target_cap) ELSE new_cap

----------------------------------------------------------------------------
(* map.rs: the record loop of EntryMap::process_buffer, as the list of
   (json, value) pairs it hands to merge_or_store, or the error it stops at *)

RECURSIVE scan_from(_, _, _, _)
scan_from(source, used, pos, acc) ==
    IF ~(pos + SIZE_U32 < used) THEN Ok(acc)
    ELSE LET raw_entry == from_slice(Slice(source, pos, used))
         IN  IF ~raw_entry.ok THEN raw_entry
             ELSE IF pos + total_len(raw_entry.val) > used THEN Err("PromParsing")
             ELSE scan_from(source, used, pos + total_len(raw_entry.val),
                            Append(acc, [json |-> json(raw_entry.val),
                                         value |-> value(raw_entry.val)]))

scan_records(source) ==
    IF Len(source) < HEADER_SIZE THEN Ok(<<>>)
    ELSE LET used == read_u32(source, 0)
         IN  IF used.val.hi = 1 \/ used.val.lo > Len(source) THEN Err("PromParsing")
             ELSE scan_from(source, used.val.lo, HEADER_SIZE, <<>>)

----------------------------------------------------------------------------
(* mmap.rs: MmapedFile.  Every MmapedFile::inner / inner_mut / take_inner /
   insert_inner call is two steps: the try_read / try_write attempt, and the
   closure run under the lock followed by the release of the lock. *)

\* call sites of MmapedFile::inner (try_read), and the closure each runs
ReadSites == {"fe_load", "ce_used", "ce_cap", "ce_cap2", "ex_cap1", "ex_cap2",
              "ex_cap3", "ex_ptr", "ex_cap4", "ex_weak", "fin_load",
              "mu_cap", "mu_ptr", "mu_weak", "lu", "su_cap", "sl_str"}
\* call sites of inner_mut / take_inner / insert_inner (try_write)
WriteSites == {"ue_save", "ie", "ex_take", "ex_insert",
               "mu_len", "mu_take", "su_save", "sy", "sl_len"}
\* call sites whose Result is unwrapped: MmapedFile::capacity and as_mut_ptr
UnwrapSites == {"ce_cap", "ce_cap2", "ex_cap1", "ex_cap2", "ex_cap3", "ex_ptr",
                "ex_cap4", "mu_cap", "mu_ptr", "su_cap"}
\* between take_inner and insert_inner of expand_to_fit
GrowthWindow == {"ex_file", "ex_remap", "ex_insert"}

\* caller t holds the lock, i.e. it is inside the closure of its call site
Holds(t) == lock.w = t \/ t \in lock.r

\* std::sync::RwLock::try_read / try_write
try_read == lock.w = 0
try_write == lock.w = 0 /\ lock.r = {}

Release(t) == [w |-> IF lock.w = t THEN 0 ELSE lock.w, r |-> lock.r \ {t}]

\* the operation of caller t returns r
Return(t, r) ==
    /\ ret' = [ret EXCEPT ![t] = r]
    /\ pc' = [pc EXCEPT ![t] = "idle"]
    /\ op' = [op EXCEPT ![t] = NoOp]
    /\ loc' = [loc EXCEPT ![t] = NoLoc]

Goto(t, p) == pc' = [pc EXCEPT ![t] = p]

\* the value the closure of an unwrapped call site passes to unwrap()
Unwrapped(t, r) == IF r.ok THEN r ELSE Err("panic")

RegionInit(cs) ==
    /\ callers = cs
    /\ \E file_size \in {0, HEADER_SIZE} :
         LET n == InnerMmap_new(file_size)
         IN  file = n.file /\ slot = n.inner
    /\ lock = [w |-> 0, r |-> {}]
    /\ positions = [k \in RegionKeys |-> NoPos]
    /\ pc = [t \in cs |-> "idle"]
    /\ op = [t \in cs |-> NoOp]
    /\ loc = [t \in cs |-> NoLoc]
    /\ ret = [t \in cs |-> Err("none")]
    /\ nops = 0
    /\ order = <<>>
    /\ expect = [k \in RegionKeys |-> NoVal]
    /\ snap = NoSnap
    /\ CodecOff
    /\ AggOff

\* MmapedFile::fetch_entry / upsert_entry up to the positions lookup
Call(t, name, key, v) ==
    /\ pc[t] = "idle"
    /\ nops < OpBound
    /\ nops' = nops + 1
    /\ op' = [op EXCEPT ![t] = [name |-> name, key |-> key, val |-> v]]
    /\ IF positions[key] # NoPos
       THEN /\ loc' = [loc EXCEPT ![t] = [NoLoc EXCEPT !.pos = positions[key]]]
            /\ Goto(t, IF name = "fetch_entry" THEN "fe_load" ELSE "ue_save")
       ELSE /\ loc' = [loc EXCEPT ![t] = [NoLoc EXCEPT !.from = "check_expand"]]
            /\ Goto(t, "ce_used")
    /\ UNCHANGED <<callers, file, slot, lock, positions, ret, order, expect, snap>>
    /\ UNCHANGED <<codecVars, aggVars>>

fetch_entry(t) ==
    \E key \in CallKeys, v \in CallValues : Call(t, "fetch_entry", key, v)

upsert_entry(t) ==
    \E key \in CallKeys, v \in CallValues : Call(t, "upsert_entry", key, v)

\* MmapedFile::expand_to_fit called on its own
expand_to_fit(t) ==
    \E target \in Targets :
        /\ pc[t] = "idle"
        /\ nops < OpBound
        /\ nops' = nops + 1
        /\ op' = [op EXCEPT ![t] = [name |-> "expand_to_fit", key |-> <<>>, val |-> 0]]
        /\ loc' = [loc EXCEPT ![t] = [NoLoc EXCEPT !.from = "direct", !.target = target]]
        /\ Goto(t, "ex_cap1")
        /\ UNCHANGED <<callers, file, slot, lock, positions, ret, order, expect, snap>>
        /\ UNCHANGED <<codecVars, aggVars>>

\* MmapedFile::inner up to try_read; fetch_entry / upsert_entry store the
\* new position in the positions hash right before their final load_value.
AcquireRead(t) ==
    /\ pc[t] \in ReadSites
    /\ ~Holds(t)
    /\ positions' = IF pc[t] = "fin_load"
                    THEN [positions EXCEPT ![op[t].key] = loc[t].pos]
                    ELSE positions
    /\ IF try_read
       THEN /\ lock' = [lock EXCEPT !.r = @ \cup {t}]
            /\ UNCHANGED <<pc, op, loc, ret>>
       ELSE /\ Return(t, IF pc[t] \in UnwrapSites THEN Err("panic")
                         ELSE Err("ConcurrentAccess"))
            /\ UNCHANGED lock
    /\ UNCHANGED <<callers, file, slot, nops, order, expect, snap>>
    /\ UNCHANGED <<codecVars, aggVars>>

\* MmapedFile::inner_mut / take_inner / insert_inner up to try_write
AcquireWrite(t) ==
    /\ pc[t] \in WriteSites
    /\ ~Holds(t)
    /\ IF try_write
       THEN /\ lock' = [lock EXCEPT !.w = t]
            /\ UNCHANGED <<pc, op, loc, ret>>
       ELSE /\ Return(t, Err("ConcurrentAccess"))
            /\ UNCHANGED lock
    /\ UNCHANGED <<callers, file, slot, positions, nops, order, expect, snap>>
    /\ UNCHANGED <<codecVars, aggVars>>

\* Result of a closure: MmapedFile::inner gives UnmappedFile when the slot
\* holds no InnerMmap.
WithInner(r) == IF slot.some THEN r ELSE Err("UnmappedFile")

\* expand_to_fit returned Ok: back in the loop of check_expand, on to the
\* write of save_used, or done
AfterExpand(t) ==
    IF loc[t].from = "check_expand"
    THEN /\ Goto(t, "ce_cap")
         /\ UNCHANGED <<op, loc, ret, snap>>
    ELSE IF loc[t].from = "save_used"
    THEN /\ Goto(t, "su_save")
         /\ UNCHANGED <<op, loc, ret, snap>>
    ELSE /\ Return(t, Ok(TRUE))
         /\ snap' = [snap EXCEPT !.fit = @ \cup {loc[t].target}]

\* fetch_entry, position known: inner(|inner| inner.load_value(pos))
fe_load(t) ==
    /\ pc[t] = "fe_load" /\ Holds(t)
    /\ Return(t, WithInner(load_value(slot, file, loc[t].pos)))
    /\ lock' = Release(t)
    /\ UNCHANGED <<callers, file, slot, positions, nops, order, expect, snap>>
    /\ UNCHANGED <<codecVars, aggVars>>

\* upsert_entry, position known: inner_mut(save_value; load_value)
ue_save(t) ==
    /\ pc[t] = "ue_save" /\ Holds(t)
    /\ LET s == save_value(slot, file, loc[t].pos, op[t].val)
       IN  IF ~slot.some
           THEN /\ Return(t, Err("UnmappedFile"))
                /\ UNCHANGED <<file, expect>>
           ELSE IF ~s.res.ok
           THEN /\ Return(t, s.res)
                /\ UNCHANGED <<file, expect>>
           ELSE /\ file' = s.file
                /\ expect' = [expect EXCEPT ![op[t].key] = op[t].val]
                /\ Return(t, load_value(slot, s.file, loc[t].pos))
    /\ lock' = Release(t)
    /\ UNCHANGED <<callers, slot, positions, nops, order, snap>>
    /\ UNCHANGED <<codecVars, aggVars>>

\* check_expand: inner(|inner| inner.load_used()) and calc_total_len
ce_used(t) ==
    /\ pc[t] = "ce_used" /\ Holds(t)
    /\ LET r == WithInner(load_used(slot, file))
           entry_len == calc_total_len(Len(op[t].key))
       IN  IF ~r.ok THEN Return(t, r)
           ELSE IF ~entry_len.ok THEN Return(t, entry_len)
           ELSE /\ loc' = [loc EXCEPT ![t].used = r.val,
                                      ![t].entry_len = entry_len.val]
                /\ Goto(t, "ce_cap")
                /\ UNCHANGED <<op, ret>>
    /\ lock' = Release(t)
    /\ UNCHANGED <<callers, file, slot, positions, nops, order, expect, snap>>
    /\ UNCHANGED <<codecVars, aggVars>>

ce_cap_fill(t) ==
    /\ pc[t] = "ce_cap" /\ Holds(t)
    /\ LET r == Unwrapped(t, WithInner(Ok(capacity(slot))))
       IN  IF ~r.ok THEN Return(t, r)
           ELSE /\ Goto(t, IF r.val < loc[t].used + loc[t].entry_len
                           THEN "ce_cap2" ELSE "ie")
                /\ UNCHANGED <<op, loc, ret>>
    /\ lock' = Release(t)
    /\ UNCHANGED <<callers, file, slot, positions, nops, order, expect, snap>>
    /\ UNCHANGED <<codecVars, aggVars>>

\* check_expand: while self.capacity() <= used + entry_len
ce_cap(t) ==
    /\ pc[t] = "ce_cap" /\ Holds(t)
    /\ LET r == Unwrapped(t, WithInner(Ok(capacity(slot))))
       IN  IF ~r.ok THEN Return(t, r)
           ELSE /\ Goto(t, IF r.val <= loc[t].used + loc[t].entry_len
                           THEN "ce_cap2" ELSE "ie")
                /\ UNCHANGED <<op, loc, ret>>
    /\ lock' = Release(t)
    /\ UNCHANGED <<callers, file, slot, positions, nops, order, expect, snap>>
    /\ UNCHANGED <<codecVars, aggVars>>

\* check_expand: self.expand_to_fit(rb_self, self.capacity().mul_chk(2)?)
ce_cap2(t) ==
    /\ pc[t] = "ce_cap2" /\ Holds(t)
    /\ LET r == Unwrapped(t, WithInner(Ok(capacity(slot))))
       IN  IF ~r.ok THEN Return(t, r)
           ELSE /\ loc' = [loc EXCEPT ![t].target = r.val * 2]
                /\ Goto(t, "ex_cap1")
                /\ UNCHANGED <<op, ret>>
    /\ lock' = Release(t)
    /\ UNCHANGED <<callers, file, slot, positions, nops, order, expect, snap>>
    /\ UNCHANGED <<codecVars, aggVars>>

ex_cap1_unchecked(t) ==
    /\ pc[t] = "ex_cap1" /\ Holds(t)
    /\ LET r == Unwrapped(t, WithInner(Ok(capacity(slot))))
       IN  IF ~r.ok THEN Return(t, r)
           ELSE /\ Goto(t, "ex_cap2")
                /\ UNCHANGED <<op, loc, ret>>
    /\ lock' = Release(t)
    /\ UNCHANGED <<callers, file, slot, positions, nops, order, expect, snap>>
    /\ UNCHANGED <<codecVars, aggVars>>

\* expand_to_fit: if target_cap < self.capacity() { return Err }
ex_cap1(t) ==
    /\ pc[t] = "ex_cap1" /\ Holds(t)
    /\ LET r == Unwrapped(t, WithInner(Ok(capacity(slot))))
       IN  IF ~r.ok THEN Return(t, r)
           ELSE IF loc[t].target < r.val THEN Return(t, Err("Arg"))
           ELSE /\ Goto(t, "ex_cap2")
                /\ UNCHANGED <<op, loc, ret>>
    /\ lock' = Release(t)
    /\ UNCHANGED <<callers, file, slot, positions, nops, order, expect, snap>>
    /\ UNCHANGED <<codecVars, aggVars>>

\* expand_to_fit: new_cap = self.capacity(), doubled while below target_cap
ex_cap2(t) ==
    /\ pc[t] = "ex_cap2" /\ Holds(t)
    /\ LET r == Unwrapped(t, WithInner(Ok(capacity(slot))))
       IN  IF ~r.ok THEN Return(t, r)
           ELSE /\ loc' = [loc EXCEPT ![t].new_cap = double_until(r.val, loc[t].target)]
                /\ Goto(t, "ex_cap3")
                /\ UNCHANGED <<op, ret>>
    /\ lock' = Release(t)
    /\ UNCHANGED <<callers, file, slot, positions, nops, order, expect, snap>>
    /\ UNCHANGED <<codecVars, aggVars>>

\* expand_to_fit: if new_cap != self.capacity()
ex_cap3(t) ==
    /\ pc[t] = "ex_cap3" /\ Holds(t)
    /\ LET r == Unwrapped(t, WithInner(Ok(capacity(slot))))
       IN  IF ~r.ok THEN Return(t, r) /\ UNCHANGED snap
           ELSE IF loc[t].new_cap # r.val
           THEN /\ Goto(t, "ex_ptr")
                /\ UNCHANGED <<op, loc, ret, snap>>
           ELSE AfterExpand(t)
    /\ lock' = Release(t)
    /\ UNCHANGED <<callers, file, slot, positions, nops, order, expect>>
    /\ UNCHANGED <<codecVars, aggVars>>

\* expand_to_fit: let old_ptr = self.as_mut_ptr()
ex_ptr(t) ==
    /\ pc[t] = "ex_ptr" /\ Holds(t)
    /\ LET r == Unwrapped(t, WithInner(Ok(TRUE)))
       IN  IF ~r.ok THEN Return(t, r)
           ELSE /\ Goto(t, "ex_cap4")
                /\ UNCHANGED <<op, loc, ret>>
    /\ lock' = Release(t)
    /\ UNCHANGED <<callers, file, slot, positions, nops, order, expect, snap>>
    /\ UNCHANGED <<codecVars, aggVars>>

\* expand_to_fit: let old_cap = cast_chk(self.capacity())
ex_cap4(t) ==
    /\ pc[t] = "ex_cap4" /\ Holds(t)
    /\ LET r == Unwrapped(t, WithInner(Ok(capacity(slot))))
       IN  IF ~r.ok THEN Return(t, r)
           ELSE /\ Goto(t, "ex_take")
                /\ UNCHANGED <<op, loc, ret>>
    /\ lock' = Release(t)
    /\ UNCHANGED <<callers, file, slot, positions, nops, order, expect, snap>>
    /\ UNCHANGED <<codecVars, aggVars>>

\* expand_to_fit: self.take_inner()?.munmap() -- the slot is left empty and
\* the old mapping is dropped
take_inner(t) ==
    /\ pc[t] = "ex_take" /\ Holds(t)
    /\ IF ~slot.some
       THEN /\ Return(t, Err("UnmappedFile"))
            /\ UNCHANGED <<slot, snap>>
       ELSE /\ loc' = [loc EXCEPT ![t].held = slot]
            /\ slot' = NoInner
            /\ snap' = [used |-> load_used(slot, file),
                        vals |-> [k \in RegionKeys |->
                                    IF positions[k] = NoPos THEN Err("none")
                                    ELSE load_value(slot, file, positions[k])],
                        fit |-> snap.fit]
            /\ Goto(t, "ex_file")
            /\ UNCHANGED <<op, ret>>
    /\ lock' = Release(t)
    /\ UNCHANGED <<callers, file, positions, nops, order, expect>>
    /\ UNCHANGED <<codecVars, aggVars>>

\* expand_to_fit: self.expand_file(&mut file, &path, target_cap)?
ex_file(t) ==
    /\ pc[t] = "ex_file"
    /\ LET r == expand_file(file, loc[t].target)
       IN  /\ file' = r.file
           /\ IF ~r.res.ok THEN Return(t, r.res)
              ELSE /\ Goto(t, "ex_remap")
                   /\ UNCHANGED <<op, loc, ret>>
    /\ UNCHANGED <<callers, slot, lock, positions, nops, order, expect, snap>>
    /\ UNCHANGED <<codecVars, aggVars>>

\* expand_to_fit: InnerMmap::reestablish(path, file, target_cap)?
ex_remap(t) ==
    /\ pc[t] = "ex_remap"
    /\ loc' = [loc EXCEPT ![t].held = reestablish(loc[t].target)]
    /\ Goto(t, "ex_insert")
    /\ UNCHANGED <<callers, file, slot, lock, positions, op, ret, nops, order,
                   expect, snap>>
    /\ UNCHANGED <<codecVars, aggVars>>

\* expand_to_fit: self.insert_inner(new_inner)?
insert_inner(t) ==
    /\ pc[t] = "ex_insert" /\ Holds(t)
    /\ slot' = loc[t].held
    /\ loc' = [loc EXCEPT ![t].held = NoInner]
    /\ Goto(t, "ex_weak")
    /\ lock' = Release(t)
    /\ UNCHANGED <<callers, file, positions, op, ret, nops, order, expect, snap>>
    /\ UNCHANGED <<codecVars, aggVars>>

\* expand_to_fit: update_weak_map, which reads inner.len() (no Ruby string
\* is tracked: the host-side bookkeeping is outside the core)
update_weak_map(t) ==
    /\ pc[t] = "ex_weak" /\ Holds(t)
    /\ LET r == WithInner(Ok(slot.len))
       IN  IF ~r.ok THEN Return(t, r) /\ UNCHANGED snap ELSE AfterExpand(t)
    /\ lock' = Release(t)
    /\ UNCHANGED <<callers, file, slot, positions, nops, order, expect>>
    /\ UNCHANGED <<codecVars, aggVars>>

\* fetch_entry / upsert_entry: inner_mut(|inner| inner.initialize_entry(key, value))
ie(t) ==
    /\ pc[t] = "ie" /\ Holds(t)
    /\ LET s == initialize_entry(slot, file, op[t].key, op[t].val)
       IN  IF ~slot.some
           THEN /\ Return(t, Err("UnmappedFile"))
                /\ UNCHANGED <<file, order, expect>>
           ELSE /\ file' = s.file
                /\ IF ~s.res.ok
                   THEN /\ Return(t, s.res)
                        /\ UNCHANGED <<order, expect>>
                   ELSE /\ loc' = [loc EXCEPT ![t].pos = s.res.val]
                        /\ order' = Append(order, op[t].key)
                        /\ expect' = [expect EXCEPT ![op[t].key] = op[t].val]
                        /\ Goto(t, "fin_load")
                        /\ UNCHANGED <<op, ret>>
    /\ lock' = Release(t)
    /\ UNCHANGED <<callers, slot, positions, nops, snap>>
    /\ UNCHANGED <<codecVars, aggVars>>

\* fetch_entry / upsert_entry: rs_self.load_value(value_offset)
fin_load(t) ==
    /\ pc[t] = "fin_load" /\ Holds(t)
    /\ Return(t, WithInner(load_value(slot, file, loc[t].pos)))
    /\ lock' = Release(t)
    /\ UNCHANGED <<callers, file, slot, positions, nops, order, expect, snap>>
    /\ UNCHANGED <<codecVars, aggVars>>

RegionNext ==
    \/ \E t \in callers : fetch_entry(t)
    \/ \E t \in callers : upsert_entry(t)
    \/ \E t \in callers : expand_to_fit(t)
    \/ \E t \in callers : AcquireRead(t)
    \/ \E t \in callers : AcquireWrite(t)
    \/ \E t \in callers : fe_load(t)
    \/ \E t \in callers : ue_save(t)
    \/ \E t \in callers : ce_used(t)
    \/ \E t \in callers : ce_cap(t)
    \/ \E t \in callers : ce_cap2(t)
    \/ \E t \in callers : ex_cap1(t)
    \/ \E t \in callers : ex_cap2(t)
    \/ \E t \in callers : ex_cap3(t)
    \/ \E t \in callers : ex_ptr(t)
    \/ \E t \in callers : ex_cap4(t)
    \/ \E t \in callers : take_inner(t)
    \/ \E t \in callers : ex_file(t)
    \/ \E t \in callers : ex_remap(t)
    \/ \E t \in callers : insert_inner(t)
    \/ \E t \in callers : update_weak_map(t)
    \/ \E t \in callers : ie(t)
    \/ \E t \in callers : fin_load(t)

\* one caller at a time
Spec == RegionInit({1}) /\ [][RegionNext]_vars

\* callers running concurrently
SpecConc == RegionInit(AllCallers) /\ [][RegionNext]_vars

----------------------------------------------------------------------------
(* mmap.rs: munmap, and the other operations of MmapedFile on a region that
   may have been unmapped *)

\* the values given to used=: those Fixnum::to_u32 accepts
UsedInputs == {HEADER_SIZE, 3 * HEADER_SIZE}

\* caller t enters an operation whose first call site is first
Start(t, name, v, first) ==
    /\ pc[t] = "idle"
    /\ nops < OpBound
    /\ nops' = nops + 1
    /\ op' = [op EXCEPT ![t] = [name |-> name, key |-> <<>>, val |-> v]]
    /\ loc' = [loc EXCEPT ![t] = NoLoc]
    /\ Goto(t, first)
    /\ UNCHANGED <<callers, file, slot, lock, positions, ret, order, expect, snap>>
    /\ UNCHANGED <<codecVars, aggVars>>

munmap(t) == Start(t, "munmap", 0, "mu_len")

MmapedFile_load_used(t) == Start(t, "load_used", 0, "lu")

MmapedFile_save_used(t) == \E used \in UsedInputs : Start(t, "save_used", used, "su_cap")

sync(t) == Start(t, "sync", 0, "sy")

slice(t) == Start(t, "slice", 0, "sl_str")

\* munmap: inner_mut(|inner| inner.set_len(0))
mu_len(t) ==
    /\ pc[t] = "mu_len" /\ Holds(t)
    /\ IF ~slot.some
       THEN /\ Return(t, Err("UnmappedFile"))
            /\ UNCHANGED slot
       ELSE /\ slot' = [slot EXCEPT !.len = 0]
            /\ Goto(t, "mu_cap")
            /\ UNCHANGED <<op, loc, ret>>
    /\ lock' = Release(t)
    /\ UNCHANGED <<callers, file, positions, nops, order, expect, snap>>
    /\ UNCHANGED <<codecVars, aggVars>>

\* munmap: let cap = cast_chk(rs_self.capacity())
mu_cap(t) ==
    /\ pc[t] = "mu_cap" /\ Holds(t)
    /\ LET r == Unwrapped(t, WithInner(Ok(capacity(slot))))
       IN  IF ~r.ok THEN Return(t, r)
           ELSE /\ Goto(t, "mu_ptr")
                /\ UNCHANGED <<op, loc, ret>>
    /\ lock' = Release(t)
    /\ UNCHANGED <<callers, file, slot, positions, nops, order, expect, snap>>
    /\ UNCHANGED <<codecVars, aggVars>>

\* munmap: rs_self.as_mut_ptr(), the argument of update_weak_map
mu_ptr(t) ==
    /\ pc[t] = "mu_ptr" /\ Holds(t)
    /\ LET r == Unwrapped(t, WithInner(Ok(TRUE)))
       IN  IF ~r.ok THEN Return(t, r)
           ELSE /\ Goto(t, "mu_weak")
                /\ UNCHANGED <<op, loc, ret>>
    /\ lock' = Release(t)
    /\ UNCHANGED <<callers, file, slot, positions, nops, order, expect, snap>>
    /\ UNCHANGED <<codecVars, aggVars>>

\* munmap: update_weak_map, which reads inner.len()
mu_weak(t) ==
    /\ pc[t] = "mu_weak" /\ Holds(t)
    /\ LET r == WithInner(Ok(slot.len))
       IN  IF ~r.ok THEN Return(t, r)
           ELSE /\ Goto(t, "mu_take")
                /\ UNCHANGED <<op, loc, ret>>
    /\ lock' = Release(t)
    /\ UNCHANGED <<callers, file, slot, positions, nops, order, expect, snap>>
    /\ UNCHANGED <<codecVars, aggVars>>

\* munmap: let _ = rs_self.take_inner()? -- the mapping is dropped
mu_take(t) ==
    /\ pc[t] = "mu_take" /\ Holds(t)
    /\ IF ~slot.some
       THEN /\ Return(t, Err("UnmappedFile"))
            /\ UNCHANGED slot
       ELSE /\ slot' = NoInner
            /\ Return(t, Ok(TRUE))
    /\ lock' = Release(t)
    /\ UNCHANGED <<callers, file, positions, nops, order, expect, snap>>
    /\ UNCHANGED <<codecVars, aggVars>>

\* MmapedFile::load_used: self.inner(|inner| inner.load_used())?
lu(t) ==
    /\ pc[t] = "lu" /\ Holds(t)
    /\ Return(t, WithInner(load_used(slot, file)))
    /\ lock' = Release(t)
    /\ UNCHANGED <<callers, file, slot, positions, nops, order, expect, snap>>
    /\ UNCHANGED <<codecVars, aggVars>>

\* MmapedFile::save_used: if rs_self.capacity() < HEADER_SIZE { expand_to_fit }
su_cap(t) ==
    /\ pc[t] = "su_cap" /\ Holds(t)
    /\ LET r == Unwrapped(t, WithInner(Ok(capacity(slot))))
       IN  IF ~r.ok THEN Return(t, r)
           ELSE IF r.val < HEADER_SIZE
           THEN /\ loc' = [loc EXCEPT ![t].from = "save_used",
                                      ![t].target = HEADER_SIZE]
                /\ Goto(t, "ex_cap1")
                /\ UNCHANGED <<op, ret>>
           ELSE /\ Goto(t, "su_save")
                /\ UNCHANGED <<op, loc, ret>>
    /\ lock' = Release(t)
    /\ UNCHANGED <<callers, file, slot, positions, nops, order, expect, snap>>
    /\ UNCHANGED <<codecVars, aggVars>>

\* MmapedFile::save_used: rs_self.inner_mut(|inner| inner.save_used(used_uint))?
su_save(t) ==
    /\ pc[t] = "su_save" /\ Holds(t)
    /\ IF ~slot.some
       THEN /\ Return(t, Err("UnmappedFile"))
            /\ UNCHANGED file
       ELSE /\ file' = save_used(slot, file, op[t].val)
            /\ Return(t, Ok(op[t].val))
    /\ lock' = Release(t)
    /\ UNCHANGED <<callers, slot, positions, nops, order, expect, snap>>
    /\ UNCHANGED <<codecVars, aggVars>>

\* MmapedFile::sync: self.inner_mut(|inner| inner.flush(ms_async))
sy(t) ==
    /\ pc[t] = "sy" /\ Holds(t)
    /\ Return(t, WithInner(Ok(TRUE)))
    /\ lock' = Release(t)
    /\ UNCHANGED <<callers, file, slot, positions, nops, order, expect, snap>>
    /\ UNCHANGED <<codecVars, aggVars>>

\* MmapedFile::str: inner(|inner| rb_str_new_static(inner.as_ptr(), inner.len()))
sl_str(t) ==
    /\ pc[t] = "sl_str" /\ Holds(t)
    /\ LET r == WithInner(Ok(slot.len))
       IN  IF ~r.ok THEN Return(t, r)
           ELSE /\ loc' = [loc EXCEPT ![t].used = r.val]
                /\ Goto(t, "sl_len")
                /\ UNCHANGED <<op, ret>>
    /\ lock' = Release(t)
    /\ UNCHANGED <<callers, file, slot, positions, nops, order, expect, snap>>
    /\ UNCHANGED <<codecVars, aggVars>>

\* MmapedFile::_slice: the substring (here the whole string), then
\* inner_mut(|inner| inner.set_len(str.len()))
sl_len(t) ==
    /\ pc[t] = "sl_len" /\ Holds(t)
    /\ IF ~slot.some
       THEN /\ Return(t, Err("UnmappedFile"))
            /\ UNCHANGED slot
       ELSE /\ slot' = [slot EXCEPT !.len = loc[t].used]
            /\ Return(t, Ok(Slice(file, 0, loc[t].used)))
    /\ lock' = Release(t)
    /\ UNCHANGED <<callers, file, positions, nops, order, expect, snap>>
    /\ UNCHANGED <<codecVars, aggVars>>

UnmapNext ==
    \/ RegionNext
    \/ \E t \in callers : munmap(t)
    \/ \E t \in callers : MmapedFile_load_used(t)
    \/ \E t \in callers : MmapedFile_save_used(t)
    \/ \E t \in callers : sync(t)
    \/ \E t \in callers : slice(t)
    \/ \E t \in callers : mu_len(t)
    \/ \E t \in callers : mu_cap(t)
    \/ \E t \in callers : mu_ptr(t)
    \/ \E t \in callers : mu_weak(t)
    \/ \E t \in callers : mu_take(t)
    \/ \E t \in callers : lu(t)
    \/ \E t \in callers : su_cap(t)
    \/ \E t \in callers : su_save(t)
    \/ \E t \in callers : sy(t)
    \/ \E t \in callers : sl_str(t)
    \/ \E t \in callers : sl_len(t)

\* one caller, with munmap and the operations that may follow it
SpecUnmap == RegionInit({1}) /\ [][UnmapNext]_vars

----------------------------------------------------------------------------
(* Codec harness: save into a buffer, then decode the buffer from its start *)

KeySource == <<97, 32, 98, 0, 99, 32, 32, 100, 101, 102>>
CodecKeys == {SubSeq(KeySource, 1, n) : n \in 0..MaxKeyLen}
FillBytes == {0, 255}

CodecInit ==
    /\ RegionOff
    /\ AggOff
    /\ cpc = "init"
    /\ \E n \in 0..MaxBufLen, f \in FillBytes : cbuf = Fill(n, f)
    /\ cbuf0 = cbuf
    /\ ckey \in CodecKeys
    /\ cval \in Values
    /\ csave = Err("none")
    /\ cdec = Err("none")

CodecSave ==
    /\ cpc = "init"
    /\ LET r == save(cbuf, ckey, cval)
       IN  /\ csave' = r.res
           /\ cbuf' = r.buf
    /\ cpc' = "saved"
    /\ UNCHANGED <<cbuf0, ckey, cval, cdec>>
    /\ UNCHANGED <<regionVars, aggVars>>

\* the bytes after save are overwritten by another writer or cut short: the
\* length field takes one of HeaderPatterns, the slice ends at byte m
HeaderPatterns == {<<255, 255, 255, 127>>, <<0, 0, 0, 128>>, <<1, 0, 0, 0>>,
                   <<12, 0, 0, 0>>}

CodecDamage ==
    /\ cpc = "saved"
    /\ \E m \in 0..Len(cbuf), keep \in BOOLEAN, h \in HeaderPatterns :
         LET cut == Slice(cbuf, 0, m)
         IN  cbuf' = IF keep \/ m < SIZE_U32 THEN cut ELSE WriteAt(cut, 0, h)
    /\ cpc' = "damaged"
    /\ UNCHANGED <<cbuf0, ckey, cval, csave, cdec>>
    /\ UNCHANGED <<regionVars, aggVars>>

CodecDecode ==
    /\ cpc \in {"saved", "damaged"}
    /\ LET e == from_slice(cbuf)
       IN  cdec' = IF ~e.ok THEN e
                   ELSE Ok([json |-> json(e.val), value |-> value(e.val),
                            total_len |-> total_len(e.val)])
    /\ cpc' = IF cpc = "saved" THEN "decoded" ELSE "decoded_damaged"
    /\ UNCHANGED <<cbuf, cbuf0, ckey, cval, csave>>
    /\ UNCHANGED <<regionVars, aggVars>>

CodecNext == CodecSave \/ CodecDamage \/ CodecDecode

SpecCodec == CodecInit /\ [][CodecNext]_vars

----------------------------------------------------------------------------
(* Aggregate map (map.rs, file_entry.rs).  The records are the decoded ones
   the record loop of process_buffer hands on (scan_from above).  A record
   value is an f64 holding a nonnegative integer, kept exactly as two limbs
   <<hi, lo>> = hi * 2^27 + lo, so that sums beyond 2^53 round as f64 sums
   do. *)

MaxRecords == 3

Limb == Pow2(27)

\* the f64 nearest to the exact integer hi * 2^27 + lo, ties to even: up to
\* 2^53 every integer is an f64, from 2^(52+n) on the f64s are 2^n apart
f64_round(hi, lo) ==
    IF hi < Pow2(26) THEN <<hi, lo>>
    ELSE LET s == Pow2(Log2(hi) - 25)
             q == lo \div s
             r == lo % s
             up == 2 * r > s \/ (2 * r = s /\ q % 2 = 1)
             lo2 == (IF up THEN q + 1 ELSE q) * s
         IN  IF lo2 = Limb THEN <<hi + 1, 0>> ELSE <<hi, lo2>>

\* f64 + f64
f64_add(a, b) ==
    LET lo == a[2] + b[2]
    IN  f64_round(a[1] + b[1] + (lo \div Limb), lo % Limb)

f64_lt(a, b) == a[1] < b[1] \/ (a[1] = b[1] /\ a[2] < b[2])

\* f64::min, f64::max
f64_min(a, b) == IF f64_lt(b, a) THEN b ELSE a
f64_max(a, b) == IF f64_lt(a, b) THEN b ELSE a

\* the values of the records: 1.0, 2.0 and 2^53, in ascending order
F64Values == << <<0, 1>>, <<0, 2>>, <<Pow2(26), 0>> >>
AggValues == {F64Values[i] : i \in DOMAIN F64Values}

\* Option<String>
None == <<>>
Some(x) == <<x>>

SYM_GAUGE == "gauge"
SYM_MIN == "min"
SYM_MAX == "max"
SYM_LIVESUM == "livesum"

\* FileInfo: the type, the mode and the pid a file's name gives
FileInfo(t, m, p) == [type_ |-> t, multiprocess_mode |-> m, pid |-> p]
Pids == {<<49, 48>>, <<50>>}
FileInfos ==
    {FileInfo(SYM_GAUGE, "all", p) : p \in Pids}
    \cup {FileInfo(SYM_GAUGE, SYM_LIVESUM, p) : p \in Pids}
    \cup {FileInfo("counter", SYM_MIN, p) : p \in Pids}
    \cup {FileInfo(SYM_GAUGE, SYM_MIN, <<49, 48>>), FileInfo(SYM_GAUGE, SYM_MAX, <<50>>)}

\* the key strings of the records: "ab" and "b"
Jsons == {<<97, 98>>, <<98>>}

\* str::from_utf8, on byte strings without multi-byte sequences
from_utf8(bytes) ==
    IF \A i \in DOMAIN bytes : bytes[i] < 128 THEN Ok(bytes) ELSE Err("Encoding")

\* EntryMetadata::new
EntryMetadata_new(raw_value, file_info) ==
    [multiprocess_mode |-> file_info.multiprocess_mode,
     type_ |-> file_info.type_,
     value |-> raw_value]

merge_min_max_swapped(self, other) ==
    IF self.type_ = SYM_GAUGE
    THEN CASE self.multiprocess_mode = SYM_MIN ->
                  [self EXCEPT !.value = f64_max(self.value, other.value)]
           [] self.multiprocess_mode = SYM_MAX ->
                  [self EXCEPT !.value = f64_min(self.value, other.value)]
           [] self.multiprocess_mode = SYM_LIVESUM ->
                  [self EXCEPT !.value = f64_add(self.value, other.value)]
           [] OTHER -> [self EXCEPT !.value = other.value]
    ELSE [self EXCEPT !.value = f64_add(self.value, other.value)]

\* EntryMetadata::merge
merge(self, other) ==
    IF self.type_ = SYM_GAUGE
    THEN CASE self.multiprocess_mode = SYM_MIN ->
                  [self EXCEPT !.value = f64_min(self.value, other.value)]
           [] self.multiprocess_mode = SYM_MAX ->
                  [self EXCEPT !.value = f64_max(self.value, other.value)]
           [] self.multiprocess_mode = SYM_LIVESUM ->
                  [self EXCEPT !.value = f64_add(self.value, other.value)]
           [] OTHER -> [self EXCEPT !.value = other.value]
    ELSE [self EXCEPT !.value = f64_add(self.value, other.value)]

is_pid_significant_unless_min_max(self) ==
    LET mp == self.multiprocess_mode
    IN  self.type_ = SYM_GAUGE /\ ~(mp = SYM_MIN \/ mp = SYM_MAX)

\* EntryMetadata::is_pid_significant
is_pid_significant(self) ==
    LET mp == self.multiprocess_mode
    IN  self.type_ = SYM_GAUGE /\ ~(mp = SYM_MIN \/ mp = SYM_MAX \/ mp = SYM_LIVESUM)

\* BorrowedData::new
BorrowedData_new(raw_json, file_info, pid_significant) ==
    LET j == from_utf8(raw_json)
    IN  IF ~j.ok THEN j
        ELSE Ok([json |-> j.val,
                 pid |-> IF pid_significant THEN Some(file_info.pid) ELSE None])

merge_or_store_overwrite(map, data, meta) ==
    [k \in DOMAIN map \cup {data} |-> IF k = data THEN meta ELSE map[k]]

merge_or_store_touch_all(map, data, meta) ==
    IF data \in DOMAIN map
    THEN [k \in DOMAIN map |-> merge(map[k], meta)]
    ELSE [k \in DOMAIN map \cup {data} |-> IF k = data THEN meta ELSE map[k]]

\* EntryMap::merge_or_store
merge_or_store(map, data, meta) ==
    IF data \in DOMAIN map
    THEN [map EXCEPT ![data] = merge(@, meta)]
    ELSE [k \in DOMAIN map \cup {data} |-> IF k = data THEN meta ELSE map[k]]

str_cmp_len_first(a, b) ==
    IF Len(a) < Len(b) THEN "Less"
    ELSE IF Len(a) > Len(b) THEN "Greater"
    ELSE LET d == {i \in 1..Len(a) : a[i] # b[i]}
         IN  IF d = {} THEN "Equal"
             ELSE LET i == CHOOSE i \in d : \A j \in d : i <= j
                  IN  IF a[i] < b[i] THEN "Less" ELSE "Greater"

\* Ord for String: the bytes pairwise, then the lengths
RECURSIVE str_cmp(_, _)
str_cmp(a, b) ==
    IF a = <<>> /\ b = <<>> THEN "Equal"
    ELSE IF a = <<>> THEN "Less"
    ELSE IF b = <<>> THEN "Greater"
    ELSE IF Head(a) < Head(b) THEN "Less"
    ELSE IF Head(a) > Head(b) THEN "Greater"
    ELSE str_cmp(Tail(a), Tail(b))

\* Ord for Option<String>: None before Some
option_cmp(p, q) ==
    IF p = None /\ q = None THEN "Equal"
    ELSE IF p = None THEN "Less"
    ELSE IF q = None THEN "Greater"
    ELSE str_cmp(p[1], q[1])

\* #[derive(Ord)] for EntryData: json, then pid
EntryData_cmp(x, y) ==
    LET c == str_cmp(x.json, y.json)
    IN  IF c # "Equal" THEN c ELSE option_cmp(x.pid, y.pid)

\* sorted.sort_unstable_by(|x, y| x.data.cmp(&y.data)), as an insertion sort
RECURSIVE insert_by(_, _)
insert_by(seq, e) ==
    IF seq = <<>> THEN <<e>>
    ELSE IF EntryData_cmp(e.data, Head(seq).data) = "Less" THEN <<e>> \o seq
    ELSE <<Head(seq)>> \o insert_by(Tail(seq), e)

RECURSIVE sort_unstable_by(_)
sort_unstable_by(v) ==
    IF v = <<>> THEN <<>>
    ELSE insert_by(sort_unstable_by(Tail(v)), Head(v))

\* the orders in which HashMap::into_iter may yield the keys
Orderings(S) ==
    {s \in [1..Cardinality(S) -> S] :
        \A i, j \in 1..Cardinality(S) : s[i] = s[j] => i = j}

AggInit ==
    /\ phase = "map"
    /\ emap = <<>>
    /\ sorted = <<>>
    /\ nrecs = 0
    /\ hist = EmptyBag
    /\ RegionOff
    /\ CodecOff

\* EntryMap::process_buffer, one turn of its loop: the record (raw_json,
\* raw_value) of a file with the given FileInfo goes through
\* EntryMetadata::new, BorrowedData::new and merge_or_store
process_buffer(file_info, raw_json, raw_value) ==
    /\ phase = "map"
    /\ nrecs < MaxRecords
    /\ LET meta == EntryMetadata_new(raw_value, file_info)
           data == BorrowedData_new(raw_json, file_info, is_pid_significant(meta))
       IN  IF ~data.ok
           THEN UNCHANGED <<emap, hist>>
           ELSE /\ emap' = merge_or_store(emap, data.val, meta)
                /\ hist' = hist (+) SetToBag({[file_info |-> file_info,
                                               json |-> raw_json,
                                               value |-> raw_value]})
    /\ nrecs' = nrecs + 1
    /\ UNCHANGED <<phase, sorted>>
    /\ UNCHANGED <<codecVars, regionVars>>

\* EntryMap::aggregate_files: the files in the caller's order, each with its
\* records in file order
aggregate_files ==
    \E file_info \in FileInfos, raw_json \in Jsons, raw_value \in AggValues :
        process_buffer(file_info, raw_json, raw_value)

\* EntryMap::into_sorted; the map is consumed, emap keeps what it held
into_sorted ==
    /\ phase = "map"
    /\ \E it \in Orderings(DOMAIN emap) :
         sorted' = sort_unstable_by([i \in 1..Cardinality(DOMAIN emap) |->
                                       [data |-> it[i], meta |-> emap[it[i]]]])
    /\ phase' = "sorted"
    /\ UNCHANGED <<emap, nrecs, hist>>
    /\ UNCHANGED <<codecVars, regionVars>>

AggNext ==
    \/ aggregate_files
    \/ into_sorted

SpecAgg == AggInit /\ [][AggNext]_vars

----------------------------------------------------------------------------
(* mmap/inner.rs called directly, as its unit tests do: an InnerMmap opened
   on a file that already has data, then load_value, save_value and
   initialize_entry without the outer MmapedFile growing the file first. *)

MaxInnerOps == 2

\* testhelper::entries_to_db: the used header (the given one, or the real
\* length), four bytes of padding, the entries one after the other
RECURSIVE entry_bytes(_, _)
entry_bytes(entries, values) ==
    IF entries = <<>> THEN <<>>
    ELSE LET key == Head(entries)
             total == calc_total_len(Len(key)).val
         IN  save(Fill(total, 0), key, Head(values)).buf
             \o entry_bytes(Tail(entries), Tail(values))

entries_to_db(entries, values, header) ==
    LET used == IF header = None
                THEN Len(entry_bytes(entries, values)) + HEADER_SIZE
                ELSE header[1]
    IN  u32_to_ne_bytes(used) \o <<0, 0, 0, 0>> \o entry_bytes(entries, values)

\* File::set_len / padding the test data: the file is extended with byte b
set_len(data, len, b) ==
    IF len <= Len(data) THEN Slice(data, 0, len)
    ELSE data \o Fill(len - Len(data), b)

\* InnerMmap::new on a file that holds data
InnerMmap_open(data) ==
    LET n == InnerMmap_new(Len(data))
    IN  [inner |-> n.inner, file |-> WriteAt(n.file, 0, data)]

\* the files of test_initialize_entry, test_save_value and test_load_value
InnerFiles ==
    {<<>>}
    \cup {entries_to_db(<< <<97>> >>, <<1>>, None)}
    \cup {set_len(entries_to_db(<< <<97>> >>, <<1>>, h), len, b) :
            h \in {None, Some(100)}, len \in {32, 40}, b \in {0, 255}}

\* the offsets the tests call with: in the header, at the first entry, around
\* the end of the data written, of the mapping and of the len check
InnerOffsets ==
    LET used == load_used(slot, file).val
        ends == {used, capacity(slot), slot.len + 2 * SIZE_F64}
    IN  {0, HEADER_SIZE - 1, HEADER_SIZE}
        \cup {o \in {e - d : e \in ends, d \in {SIZE_F64 - 1, SIZE_F64, SIZE_F64 + 1}} :
                o >= 0}

InnerInit ==
    /\ callers = {1}
    /\ \E data \in InnerFiles :
         LET n == InnerMmap_open(data)
         IN  file = n.file /\ slot = n.inner
    /\ lock = [w |-> 0, r |-> {}]
    /\ positions = <<>>
    /\ pc = [t \in {1} |-> "idle"]
    /\ op = [t \in {1} |-> NoOp]
    /\ loc = [t \in {1} |-> NoLoc]
    /\ ret = [t \in {1} |-> Err("none")]
    /\ nops = 0
    /\ order = <<>>
    /\ expect = <<>>
    /\ snap = [file |-> file, slot |-> slot]
    /\ CodecOff
    /\ AggOff

\* one direct call: op, loc.pos (the offset) and snap (the region before the
\* call) record it, ret is its Result
InnerCall(name, key, v, offset, res) ==
    /\ nops < MaxInnerOps
    /\ nops' = nops + 1
    /\ op' = [op EXCEPT ![1] = [name |-> name, key |-> key, val |-> v]]
    /\ loc' = [loc EXCEPT ![1] = [NoLoc EXCEPT !.pos = offset]]
    /\ snap' = [file |-> file, slot |-> slot]
    /\ ret' = [ret EXCEPT ![1] = res]
    /\ UNCHANGED <<callers, lock, positions, pc, order, expect>>
    /\ UNCHANGED <<codecVars, aggVars>>

InnerLoadValue ==
    \E offset \in InnerOffsets :
        /\ InnerCall("load_value", <<>>, 0, offset, load_value(slot, file, offset))
        /\ UNCHANGED <<file, slot>>

InnerSaveValue ==
    \E offset \in InnerOffsets, v \in {2} :
        LET r == save_value(slot, file, offset, v)
        IN  /\ InnerCall("save_value", <<>>, v, offset, r.res)
            /\ file' = r.file
            /\ UNCHANGED slot

InnerInitializeEntry ==
    \E key \in {<<>>, <<98, 99, 100, 101>>}, v \in {3} :
        LET r == initialize_entry(slot, file, key, v)
        IN  /\ InnerCall("initialize_entry", key, v, 0, r.res)
            /\ file' = r.file
            /\ UNCHANGED slot

InnerNext == InnerLoadValue \/ InnerSaveValue \/ InnerInitializeEntry

SpecInner == InnerInit /\ [][InnerNext]_vars

----------------------------------------------------------------------------

(* map.rs: EntryMap::process_buffer on the bytes of whole files, as
   aggregate_files calls it for each file it has read.  The files hold
   counters and gauges; exemplar files are not part of this model. *)

MaxFiles == 2

RECURSIVE process_entries(_, _, _, _, _)

process_buffer_unchecked(map, file_info, source) ==
    IF Len(source) < HEADER_SIZE THEN [res |-> Ok(TRUE), map |-> map]
    ELSE process_entries(map, file_info, source, read_u32(source, 0).val.lo,
                         HEADER_SIZE)

\* the while loop of process_buffer: the Result, and the map with the
\* records merged before the loop ended
process_entries(map, file_info, source, used, pos) ==
    IF ~(pos + SIZE_U32 < used) THEN [res |-> Ok(TRUE), map |-> map]
    ELSE LET raw_entry == from_slice(Slice(source, pos, used))
         IN  IF ~raw_entry.ok THEN [res |-> raw_entry, map |-> map]
             ELSE IF pos + total_len(raw_entry.val) > used
             THEN [res |-> Err("PromParsing"), map |-> map]
             ELSE LET meta == EntryMetadata_new(<<0, value(raw_entry.val)>>, file_info)
                      data == BorrowedData_new(json(raw_entry.val), file_info,
                                               is_pid_significant(meta))
                  IN  IF ~data.ok THEN [res |-> data, map |-> map]
                      ELSE process_entries(merge_or_store(map, data.val, meta),
                                           file_info, source, used,
                                           pos + total_len(raw_entry.val))

\* EntryMap::process_buffer(file_info, source), the whole function
process_buffer_source(map, file_info, source) ==
    IF Len(source) < HEADER_SIZE THEN [res |-> Ok(TRUE), map |-> map]
    ELSE LET used == read_u32(source, 0)
         IN  IF used.val.hi = 1 \/ used.val.lo > Len(source)
             THEN [res |-> Err("PromParsing"), map |-> map]
             ELSE process_entries(map, file_info, source, used.val.lo, HEADER_SIZE)

\* the files of test_process_buffer: no, one and two entries, with the real
\* used header, one that is too short, and ones that are too long
ScanSources ==
    LET dbs == {entries_to_db(SubSeq(<< <<97, 98>>, <<98>> >>, 1, n), <<1, 2>>, h) :
                  n \in 0..2, h \in {None, Some(15), Some(41), Some(100)}}
    IN  dbs \cup {WriteAt(d, 0, <<0, 0, 0, 128>>) : d \in dbs} \cup {<<>>}

\* one turn of the loop of aggregate_files: a file is read and processed;
\* file is the source read, ret the Result, nrecs the number of files so far
scan_file ==
    \E file_info \in FileInfos, source \in ScanSources :
        /\ phase = "map"
        /\ nrecs < MaxFiles
        /\ LET r == process_buffer_source(emap, file_info, source)
           IN  /\ emap' = r.map
               /\ ret' = <<r.res>>
        /\ file' = source
        /\ nrecs' = nrecs + 1
        /\ UNCHANGED <<phase, sorted, hist>>
        /\ UNCHANGED <<callers, slot, lock, positions, pc, op, loc, nops, order,
                       expect, snap>>
        /\ UNCHANGED codecVars

ScanNext == scan_file

SpecScan == AggInit /\ [][ScanNext]_vars

----------------------------------------------------------------------------

(* file_entry.rs: the exposition formats.  A key is the JSON text
   ["family","name",[labels],[values]] as bytes. *)

\* the JSON text of a key as the tests write it: compact, or with one space
\* after the opening bracket
RECURSIVE join(_)
join(items) ==
    IF items = <<>> THEN <<>>
    ELSE IF Len(items) = 1 THEN items[1]
    ELSE items[1] \o <<44>> \o join(Tail(items))

quoted(s) == <<34>> \o s \o <<34>>

metric_key(lead, family_name, metric_name, labels, values) ==
    <<91>> \o lead \o quoted(family_name) \o <<44>> \o quoted(metric_name)
    \o <<44, 91>> \o join([i \in DOMAIN labels |-> quoted(labels[i])])
    \o <<93, 44, 91>> \o join(values) \o <<93, 93>>

\* a value computed once and used under a name
Bind(v, F(_)) == F(v)

\* the least index of a set of indexes, or none when the set is empty
First(S, none) == IF S = {} THEN none ELSE CHOOSE j \in S : \A k \in S : j <= k

\* serde_json::from_str::<MetricText>: two borrowed strings, a sequence of
\* borrowed strings and a sequence of raw values.  A string with an escape
\* cannot be borrowed and is an error; of JSON whitespace, the space is
\* modelled.
skip_ws(b, i) ==
    First({j \in i..Len(b) : b[j] # 32}, Len(b) + 1)

\* a string starting at i: its text without the quotes, and the next index
parse_str(b, i) ==
    Bind(skip_ws(b, i), LAMBDA s :
    Bind(First({j \in (s + 1)..Len(b) : b[j] = 34}, 0), LAMBDA e :
        IF s > Len(b) \/ b[s] # 34 \/ e = 0 THEN Err("json")
        ELSE IF \E j \in (s + 1)..(e - 1) : b[j] = 92 \/ b[j] < 32 THEN Err("json")
        ELSE [ok |-> TRUE, val |-> SubSeq(b, s + 1, e - 1), next |-> e + 1]))

\* a raw value starting at i: a string with its quotes, null, or a number
parse_raw(b, i) ==
    Bind(skip_ws(b, i), LAMBDA s :
        IF s > Len(b) THEN Err("json")
        ELSE IF b[s] = 34
        THEN Bind(parse_str(b, s), LAMBDA str :
                 IF ~str.ok THEN str
                 ELSE [ok |-> TRUE, val |-> quoted(str.val), next |-> str.next])
        ELSE Bind(First({j \in s..Len(b) : b[j] \in {44, 93, 32}}, Len(b) + 1),
                  LAMBDA e :
                 Bind(SubSeq(b, s, e - 1), LAMBDA tok :
                     IF tok = <<110, 117, 108, 108>>
                        \/ (tok # <<>> /\ \A j \in DOMAIN tok : tok[j] \in 48..57)
                     THEN [ok |-> TRUE, val |-> tok, next |-> e]
                     ELSE Err("json"))))

\* the items of a sequence after its opening bracket, up to the closing one
RECURSIVE parse_items(_, _, _, _)
parse_items(b, i, raw, acc) ==
    Bind(IF raw THEN parse_raw(b, i) ELSE parse_str(b, i), LAMBDA item :
        IF ~item.ok THEN item
        ELSE Bind(skip_ws(b, item.next), LAMBDA s :
                 IF s > Len(b) THEN Err("json")
                 ELSE IF b[s] = 93
                 THEN [ok |-> TRUE, val |-> Append(acc, item.val), next |-> s + 1]
                 ELSE IF b[s] = 44
                 THEN parse_items(b, s + 1, raw, Append(acc, item.val))
                 ELSE Err("json")))

parse_seq(b, i, raw) ==
    Bind(skip_ws(b, i), LAMBDA s :
        IF s > Len(b) \/ b[s] # 91 THEN Err("json")
        ELSE Bind(skip_ws(b, s + 1), LAMBDA t :
                 IF t <= Len(b) /\ b[t] = 93
                 THEN [ok |-> TRUE, val |-> <<>>, next |-> t + 1]
                 ELSE parse_items(b, s + 1, raw, <<>>)))

\* b[i] is the byte c, spaces skipped: the index after it, or 0
expect_byte(b, i, c) ==
    Bind(skip_ws(b, i), LAMBDA s : IF s <= Len(b) /\ b[s] = c THEN s + 1 ELSE 0)

MetricText_from_str(b) ==
    Bind(expect_byte(b, 1, 91), LAMBDA i1 :
    IF i1 = 0 THEN Err("json") ELSE
    Bind(parse_str(b, i1), LAMBDA family_name :
    IF ~family_name.ok THEN Err("json") ELSE
    Bind(expect_byte(b, family_name.next, 44), LAMBDA i2 :
    IF i2 = 0 THEN Err("json") ELSE
    Bind(parse_str(b, i2), LAMBDA metric_name :
    IF ~metric_name.ok THEN Err("json") ELSE
    Bind(expect_byte(b, metric_name.next, 44), LAMBDA i3 :
    IF i3 = 0 THEN Err("json") ELSE
    Bind(parse_seq(b, i3, FALSE), LAMBDA labels :
    IF ~labels.ok THEN Err("json") ELSE
    Bind(expect_byte(b, labels.next, 44), LAMBDA i4 :
    IF i4 = 0 THEN Err("json") ELSE
    Bind(parse_seq(b, i4, TRUE), LAMBDA values :
    IF ~values.ok THEN Err("json") ELSE
    Bind(expect_byte(b, values.next, 93), LAMBDA i5 :
    IF i5 = 0 \/ skip_ws(b, i5) <= Len(b) THEN Err("json")
    ELSE Ok([family_name |-> family_name.val, metric_name |-> metric_name.val,
             labels |-> labels.val, values |-> values.val]))))))))))

\* FileEntry::append_header: the HELP and the TYPE line
append_header(entry, family_name) ==
    << <<"HELP", family_name>>, <<"TYPE", family_name, entry.meta.type_>> >>

\* the value of a label as append_entry writes it: null as "", a string as
\* it is, anything else between quotes
shown(val) ==
    IF val = <<110, 117, 108, 108>> THEN <<34, 34>>
    ELSE IF val[1] = 34 THEN val
    ELSE quoted(val)

append_entry_pid_first(entry, json_data) ==
    IF json_data.labels = <<>>
    THEN [name |-> json_data.metric_name, braces |-> entry.data.pid # None,
          labels |-> IF entry.data.pid = None THEN <<>>
                     ELSE << <<<<112, 105, 100>>, quoted(entry.data.pid[1])>> >>]
    ELSE [name |-> json_data.metric_name, braces |-> TRUE,
          labels |-> (IF entry.data.pid = None THEN <<>>
                      ELSE << <<<<112, 105, 100>>, quoted(entry.data.pid[1])>> >>)
                     \o [i \in DOMAIN json_data.labels |->
                           <<json_data.labels[i], shown(json_data.values[i])>>]]

\* FileEntry::append_entry: the metric line up to its value, as the metric
\* name, whether braces are written, and the label pairs between them
append_entry(entry, json_data) ==
    IF json_data.labels = <<>>
    THEN IF entry.data.pid # None
         THEN [name |-> json_data.metric_name, braces |-> TRUE,
               labels |-> << <<<<112, 105, 100>>, quoted(entry.data.pid[1])>> >>]
         ELSE [name |-> json_data.metric_name, braces |-> FALSE, labels |-> <<>>]
    ELSE [name |-> json_data.metric_name, braces |-> TRUE,
          labels |-> [i \in DOMAIN json_data.labels |->
                        <<json_data.labels[i], shown(json_data.values[i])>>]
                     \o (IF entry.data.pid # None
                         THEN << <<<<112, 105, 100>>, quoted(entry.data.pid[1])>> >>
                         ELSE <<>>)]

header_always(prev_name, family_name) == TRUE

\* entries_to_string: match prev_name { Some(p) if p == family_name => {} ... }
header_due(prev_name, family_name) == prev_name # Some(family_name)

\* the for loop of entries_to_string from entry i on: the lines written and
\* the number of entries processed
RECURSIVE string_loop(_, _, _, _, _)
string_loop(entries, i, prev_name, out, processed_count) ==
    IF i > Len(entries) THEN [out |-> out, processed_count |-> processed_count]
    ELSE Bind(MetricText_from_str(entries[i].data.json), LAMBDA metrics_data :
         IF ~metrics_data.ok
            \/ Len(metrics_data.val.labels) # Len(metrics_data.val.values)
         THEN string_loop(entries, i + 1, prev_name, out, processed_count)
         ELSE Bind(metrics_data.val.family_name, LAMBDA family_name :
              Bind(append_entry(entries[i], metrics_data.val), LAMBDA line :
                  string_loop(entries, i + 1, Some(family_name),
                              out \o (IF header_due(prev_name, family_name)
                                      THEN append_header(entries[i], family_name)
                                      ELSE <<>>)
                                  \o << <<"SAMPLE", line.name, line.labels,
                                          entries[i].meta.value, line.braces>> >>,
                              processed_count + 1))))

entries_to_string_lenient(entries) ==
    Ok(string_loop(entries, 1, None, <<>>, 0).out)

\* FileEntry::entries_to_string
entries_to_string(entries) ==
    LET done == string_loop(entries, 1, None, <<>>, 0)
    IN  IF done.processed_count # Len(entries) THEN Err("Runtime")
        ELSE Ok(done.out)

\* FileEntry::trim_quotes
trim_quotes(s) ==
    LET starts == s # <<>> /\ s[1] = 34
        ends == s # <<>> /\ s[Len(s)] = 34
        from == IF starts THEN 2 ELSE 1
        to == IF ends THEN Len(s) - 1 ELSE Len(s)
    IN  IF from > to THEN <<>> ELSE SubSeq(s, from, to)

\* str::parse::<f64> for the label values of the model: decimal digits
RECURSIVE digits_value(_)
digits_value(s) ==
    IF s = <<>> THEN 0 ELSE 10 * digits_value(SubSeq(s, 1, Len(s) - 1)) + (s[Len(s)] - 48)

parse_f64(s) ==
    IF s # <<>> /\ \A i \in DOMAIN s : s[i] \in 48..57 THEN Ok(<<0, digits_value(s)>>)
    ELSE Err("ParseFloat")

\* str::strip_suffix, the string unchanged when it does not end with the suffix
strip_suffix(s, suffix) ==
    IF Len(s) >= Len(suffix) /\ SubSeq(s, Len(s) - Len(suffix) + 1, Len(s)) = suffix
    THEN SubSeq(s, 1, Len(s) - Len(suffix))
    ELSE s

ends_with(s, suffix) == strip_suffix(s, suffix) # s \/ suffix = <<>>

LE == <<108, 101>>
QUANTILE == <<113, 117, 97, 110, 116, 105, 108, 101>>
PLUS_INF == <<43, 73, 110, 102>>
SUFFIX_BUCKET == <<95, 98, 117, 99, 107, 101, 116>>
SUFFIX_SUM == <<95, 115, 117, 109>>
SUFFIX_COUNT == <<95, 99, 111, 117, 110, 116>>

\* the pairs without the ones named skip
without(pairs, skip) == SelectSeq(pairs, LAMBDA l : l[1] # skip)

\* DefaultHasher over the label names and values and the type string, taken
\* as free of collisions: the hash is the list of what was hashed
hash_value(pairs, metric_type) == <<pairs, metric_type>>

\* the loop over the label pairs of the histogram and summary arms: the
\* first pair named disc whose value is +Inf (histogram only) ends the
\* record, the first that is no number panics, else the last one is kept
RECURSIVE discriminator(_, _, _, _)
discriminator(pairs, disc, skip_inf, found) ==
    IF pairs = <<>> THEN Ok(found)
    ELSE IF Head(pairs)[1] # disc THEN discriminator(Tail(pairs), disc, skip_inf, found)
    ELSE IF skip_inf /\ Head(pairs)[2] = PLUS_INF THEN Err("continue")
    ELSE IF ~parse_f64(Head(pairs)[2]).ok THEN Err("panic")
    ELSE discriminator(Tail(pairs), disc, skip_inf, Some(parse_f64(Head(pairs)[2]).val))

\* (value as u64) + sample_count
u64_add(a, b) == <<a[1] + b[1] + ((a[2] + b[2]) \div Limb), (a[2] + b[2]) % Limb>>

\* Option<f64>::unwrap_or_default
unwrap_or_default(o) == IF o = None THEN <<0, 0>> ELSE o[1]

NoMetric == [label |-> <<>>, counter |-> None, gauge |-> None, histogram |-> None,
             summary |-> None]

\* HashMap::insert on mtrcs, metric_types and metric_names together
insert(mtrcs, h, m, metric_type, metric_name) ==
    [k \in DOMAIN mtrcs \cup {h} |->
        IF k = h THEN [metric |-> m, type |-> metric_type, name |-> metric_name]
        ELSE mtrcs[k]]

\* the histogram arm: Err("continue") for a +Inf bucket, Err("panic") for a
\* panic, else the maps after the record
histogram_arm(mtrcs, gr, metric_name, lbls, m) ==
    Bind(discriminator(lbls, LE, TRUE, None), LAMBDA le :
    Bind(hash_value(without(lbls, LE), "histogram"), LAMBDA h :
        IF ~le.ok THEN le
        ELSE IF h \in DOMAIN mtrcs
        THEN LET hs == mtrcs[h].metric.histogram[1]
                 bucket == [i \in DOMAIN hs |->
                              IF hs[i].upper_bound # le.val THEN hs[i]
                              ELSE [hs[i] EXCEPT !.cumulative_count_float =
                                      Some(f64_add(unwrap_or_default(@), gr.meta.value))]]
             IN  Ok([mtrcs EXCEPT ![h].metric.histogram = Some(bucket)])
        ELSE IF le.val = None THEN Err("panic")
        ELSE LET final_metric_name ==
                     strip_suffix(strip_suffix(strip_suffix(metric_name, SUFFIX_BUCKET),
                                               SUFFIX_SUM), SUFFIX_COUNT)
                 buckets == << [cumulative_count_float |-> Some(gr.meta.value),
                                upper_bound |-> le.val] >>
             IN  Ok(insert(mtrcs, h,
                           [m EXCEPT !.label = without(lbls, LE),
                                     !.histogram = Some(buckets)],
                           "histogram", final_metric_name))))

\* the summary arm
summary_arm(mtrcs, gr, metric_name, lbls, m) ==
    Bind(discriminator(lbls, QUANTILE, FALSE, None), LAMBDA quantile :
    Bind(hash_value(without(lbls, QUANTILE), "summary"), LAMBDA h :
    LET no_summary == [quantile |-> <<>>, sample_count |-> None, sample_sum |-> None]
    IN  IF ~quantile.ok THEN quantile
        ELSE IF h \in DOMAIN mtrcs
        THEN LET smry == mtrcs[h].metric.summary[1]
                 hit == \E i \in DOMAIN smry.quantile :
                            smry.quantile[i].quantile = quantile.val
                 edited == [i \in DOMAIN smry.quantile |->
                              IF smry.quantile[i].quantile # quantile.val
                              THEN smry.quantile[i]
                              ELSE [smry.quantile[i] EXCEPT !.quantile =
                                      Some(f64_add(unwrap_or_default(@), gr.meta.value))]]
                 after ==
                     IF ends_with(metric_name, SUFFIX_COUNT)
                     THEN [smry EXCEPT !.sample_count =
                             Some(u64_add(gr.meta.value, unwrap_or_default(@)))]
                     ELSE IF ends_with(metric_name, SUFFIX_SUM)
                     THEN [smry EXCEPT !.sample_sum =
                             Some(f64_add(gr.meta.value, unwrap_or_default(@)))]
                     ELSE IF hit THEN [smry EXCEPT !.quantile = edited]
                     ELSE [smry EXCEPT !.quantile =
                             Append(@, [quantile |-> quantile.val,
                                        value |-> Some(gr.meta.value)])]
             IN  Ok([mtrcs EXCEPT ![h].metric.summary = Some(after)])
        ELSE LET labelled == [m EXCEPT !.label = without(lbls, QUANTILE)]
             IN  IF ends_with(metric_name, SUFFIX_COUNT)
                 THEN Ok(insert(mtrcs, h,
                                [labelled EXCEPT !.summary =
                                   Some([no_summary EXCEPT !.sample_count =
                                           Some(gr.meta.value)])],
                                "summary", strip_suffix(metric_name, SUFFIX_COUNT)))
                 ELSE IF ends_with(metric_name, SUFFIX_SUM)
                 THEN Ok(insert(mtrcs, h,
                                [labelled EXCEPT !.summary =
                                   Some([no_summary EXCEPT !.sample_sum =
                                           Some(gr.meta.value)])],
                                "summary", strip_suffix(metric_name, SUFFIX_SUM)))
                 ELSE Ok(insert(mtrcs, h,
                                [labelled EXCEPT !.summary =
                                   Some([no_summary EXCEPT !.quantile =
                                           << [quantile |-> quantile.val,
                                               value |-> Some(gr.meta.value)] >>])],
                                "summary", metric_name))))

\* match metric_type.as_str(): the arm of the record's type
protobuf_arm(mtrcs, gr, metric_name, lbls, m) ==
    CASE gr.meta.type_ = "counter" ->
           Ok(insert(mtrcs, hash_value(lbls, "counter"),
                     [m EXCEPT !.counter = Some(gr.meta.value)], "counter", metric_name))
      [] gr.meta.type_ = "gauge" ->
           Ok(insert(mtrcs, hash_value(lbls, "gauge"),
                     [m EXCEPT !.gauge = Some(gr.meta.value)], "gauge", metric_name))
      [] gr.meta.type_ = "histogram" -> histogram_arm(mtrcs, gr, metric_name, lbls, m)
      [] gr.meta.type_ = "summary" -> summary_arm(mtrcs, gr, metric_name, lbls, m)
      [] OTHER -> Err("panic")

\* entries_to_protobuf, the records from entry i on: the maps at the end, or
\* the panic
RECURSIVE protobuf_loop(_, _, _)
protobuf_loop(entries, i, mtrcs) ==
    IF i > Len(entries) THEN Ok(mtrcs)
    ELSE Bind(MetricText_from_str(entries[i].data.json), LAMBDA text :
         IF ~text.ok THEN Err("panic")
         ELSE IF Len(text.val.labels) # Len(text.val.values)
         THEN protobuf_loop(entries, i + 1, mtrcs)
         ELSE Bind([j \in DOMAIN text.val.labels |->
                      <<trim_quotes(text.val.labels[j]),
                        trim_quotes(text.val.values[j])>>], LAMBDA lbls :
              Bind(protobuf_arm(mtrcs, entries[i], text.val.metric_name, lbls,
                                [NoMetric EXCEPT !.label = lbls]), LAMBDA arm :
                  IF arm.ok THEN protobuf_loop(entries, i + 1, arm.val)
                  ELSE IF arm.err = "continue" THEN protobuf_loop(entries, i + 1, mtrcs)
                  ELSE arm)))

\* FileEntry::entries_to_protobuf: the family messages in the order `it` of
\* the iteration over mtrcs, each with its one metric
entries_to_protobuf(entries, it) ==
    Bind(protobuf_loop(entries, 1, <<>>), LAMBDA done :
        IF ~done.ok THEN done
        ELSE Ok([i \in DOMAIN it |->
                   [name |-> done.val[it[i]].name,
                    help |-> "Multiprocess metric",
                    type |-> done.val[it[i]].type,
                    metric |-> <<done.val[it[i]].metric>>]]))

(* The exposition of an aggregate: records are merged, the map is sorted,
   and the sorted list is written in one of the two formats. *)

\* keys: the counter families "a" and "b" without labels and with the label
\* l="v", "b" also written with a space after the opening bracket; the gauge
\* family "g" without labels and with l="v"; the buckets le="1", le="2" and
\* le="+Inf" of the histogram family "h"; of the summary family "s" the
\* quantiles "1" and "2", the quantile "1" written with a space after the
\* opening bracket, s_sum and s_count; and, in counter files, a key with a
\* label and no value and a key cut short
ExpoKeyTable ==
    {[family_name |-> f, metric_name |-> f, labels |-> l,
      values |-> [i \in DOMAIN l |-> quoted(<<118>>)], lead |-> <<>>,
      type_ |-> "counter"] :
        f \in {<<97>>, <<98>>}, l \in {<<>>, << <<108>> >>}}
    \cup {[family_name |-> <<98>>, metric_name |-> <<98>>, labels |-> <<>>,
           values |-> <<>>, lead |-> <<32>>, type_ |-> "counter"]}
    \cup {[family_name |-> <<103>>, metric_name |-> <<103>>, labels |-> l,
           values |-> [i \in DOMAIN l |-> quoted(<<118>>)], lead |-> <<>>,
           type_ |-> SYM_GAUGE] : l \in {<<>>, << <<108>> >>}}
    \cup {[family_name |-> <<104>>, metric_name |-> <<104>> \o SUFFIX_BUCKET,
           labels |-> <<LE>>, values |-> <<quoted(b)>>,
           lead |-> <<>>, type_ |-> "histogram"] : b \in {<<49>>, <<50>>, PLUS_INF}}
    \cup {[family_name |-> <<115>>, metric_name |-> <<115>>,
           labels |-> <<QUANTILE>>, values |-> <<quoted(q[1])>>,
           lead |-> q[2], type_ |-> "summary"] :
             q \in {<<<<49>>, <<>>>>, <<<<50>>, <<>>>>, <<<<49>>, <<32>>>>}}
    \cup {[family_name |-> <<115>>, metric_name |-> <<115>> \o sfx,
           labels |-> <<>>, values |-> <<>>,
           lead |-> <<>>, type_ |-> "summary"] : sfx \in {SUFFIX_SUM, SUFFIX_COUNT}}

KeyOf(r) == metric_key(r.lead, r.family_name, r.metric_name, r.labels, r.values)

MismatchKey == metric_key(<<>>, <<97>>, <<97>>, << <<109>> >>, <<>>)
CutKey == SubSeq(KeyOf(CHOOSE r \in ExpoKeyTable : r.labels = <<>> /\ r.family_name = <<97>>),
                 1, 10)

ExpoKeys == {KeyOf(r) : r \in ExpoKeyTable} \cup {MismatchKey, CutKey}

ExpoFileInfos ==
    {FileInfo("counter", "all", <<49>>), FileInfo(SYM_GAUGE, "all", <<49>>),
     FileInfo(SYM_GAUGE, "all", <<50>>), FileInfo("histogram", "all", <<49>>),
     FileInfo("summary", "all", <<49>>)}

\* EntryMap::aggregate_files for the files of the exposition: each key is in
\* the files of its family's type
aggregate_keys ==
    \E file_info \in ExpoFileInfos, raw_json \in ExpoKeys :
        /\ IF raw_json \in {MismatchKey, CutKey} THEN file_info.type_ = "counter"
           ELSE \E r \in ExpoKeyTable :
                    KeyOf(r) = raw_json /\ r.type_ = file_info.type_
        /\ process_buffer(file_info, raw_json, <<0, 1>>)

\* the list into_sorted returned goes to entries_to_string
to_text ==
    /\ phase = "sorted"
    /\ phase' = "text"
    /\ ret' = <<entries_to_string(sorted)>>
    /\ UNCHANGED <<emap, sorted, nrecs, hist>>
    /\ UNCHANGED <<callers, file, slot, lock, positions, pc, op, loc, nops, order,
                   expect, snap>>
    /\ UNCHANGED codecVars

\* the list into_sorted returned goes to entries_to_protobuf
to_protobuf ==
    /\ phase = "sorted"
    /\ phase' = "protobuf"
    /\ LET done == protobuf_loop(sorted, 1, <<>>)
       IN  \E it \in Orderings(IF done.ok THEN DOMAIN done.val ELSE {}) :
               ret' = <<entries_to_protobuf(sorted, it)>>
    /\ UNCHANGED <<emap, sorted, nrecs, hist>>
    /\ UNCHANGED <<callers, file, slot, lock, positions, pc, op, loc, nops, order,
                   expect, snap>>
    /\ UNCHANGED codecVars

ExpoNext ==
    \/ aggregate_keys
    \/ into_sorted
    \/ to_text
    \/ to_protobuf

SpecExpo == AggInit /\ [][ExpoNext]_vars

----------------------------------------------------------------------------

----------------------------------------------------------------------------
(* process_buffer turn by turn: the checks before the loop, then one turn of
   the while loop per step.  file is the source, loc[1] holds the locals
   used and pos, pc[1] the place in the function, ret[1] the Result. *)

\* the sources scanned: the files of ScanSources; files of two records whose
\* first length field is overwritten; and buffers of one repeated byte with
\* a used header equal to their length or three bytes less
WalkSources ==
    ScanSources
    \cup {WriteAt(entries_to_db(<< <<97, 98>>, <<98>> >>, <<1, 2>>, None), HEADER_SIZE, h) :
            h \in HeaderPatterns \cup {<<0, 0, 0, 0>>}}
    \cup UNION {{WriteAt(Fill(n, f), 0, u32_to_ne_bytes(n)),
                 WriteAt(Fill(n, f), 0, u32_to_ne_bytes(n - 3))} :
                   n \in {8, 12, 16, 24, 40}, f \in {0, SPACE, 255}}

WalkInit ==
    /\ CodecOff
    /\ phase = "map" /\ emap = <<>> /\ sorted = <<>> /\ nrecs = 0 /\ hist = EmptyBag
    /\ callers = {} /\ slot = NoInner /\ lock = [w |-> 0, r |-> {}]
    /\ positions = <<>> /\ nops = 0 /\ order = <<>> /\ expect = <<>> /\ snap = NoSnap
    /\ file \in WalkSources
    /\ \E file_info \in {FileInfo("counter", "all", <<49>>), FileInfo(SYM_GAUGE, "all", <<50>>)} :
         op = <<[name |-> "process_buffer", file_info |-> file_info]>>
    /\ pc = <<"start">>
    /\ loc = <<[used |-> 0, pos |-> 0]>>
    /\ ret = <<>>

\* process_buffer up to its loop
walk_start ==
    /\ pc = <<"start">>
    /\ IF Len(file) < HEADER_SIZE
       THEN pc' = <<"done">> /\ ret' = <<Ok(TRUE)>> /\ UNCHANGED loc
       ELSE LET used == read_u32(file, 0)
            IN  IF used.val.hi = 1 \/ used.val.lo > Len(file)
                THEN pc' = <<"done">> /\ ret' = <<Err("PromParsing")>> /\ UNCHANGED loc
                ELSE /\ pc' = <<"loop">>
                     /\ loc' = <<[used |-> used.val.lo, pos |-> HEADER_SIZE]>>
                     /\ UNCHANGED ret
    /\ UNCHANGED <<callers, file, slot, lock, positions, op, nops, order, expect, snap>>
    /\ UNCHANGED <<codecVars, aggVars>>

\* one turn of `while pos + size_of::<u32>() < used`, or the end of the loop
walk_step ==
    /\ pc = <<"loop">>
    /\ LET used == loc[1].used
           pos == loc[1].pos
       IN  IF ~(pos + SIZE_U32 < used)
           THEN pc' = <<"done">> /\ ret' = <<Ok(TRUE)>> /\ UNCHANGED <<loc, emap>>
           ELSE Bind(from_slice(Slice(file, pos, used)), LAMBDA raw_entry :
                IF ~raw_entry.ok
                THEN pc' = <<"done">> /\ ret' = <<raw_entry>> /\ UNCHANGED <<loc, emap>>
                ELSE IF pos + total_len(raw_entry.val) > used
                THEN /\ pc' = <<"done">> /\ ret' = <<Err("PromParsing")>>
                     /\ UNCHANGED <<loc, emap>>
                ELSE LET meta == EntryMetadata_new(<<0, value(raw_entry.val)>>,
                                                   op[1].file_info)
                         data == BorrowedData_new(json(raw_entry.val), op[1].file_info,
                                                  is_pid_significant(meta))
                     IN  /\ loc' = <<[used |-> used,
                                      pos |-> pos + total_len(raw_entry.val)]>>
                         /\ IF ~data.ok
                            THEN pc' = <<"done">> /\ ret' = <<data>> /\ UNCHANGED emap
                            ELSE /\ emap' = merge_or_store(emap, data.val, meta)
                                 /\ UNCHANGED <<pc, ret>>)
    /\ UNCHANGED <<callers, file, slot, lock, positions, op, nops, order, expect, snap>>
    /\ UNCHANGED <<cpc, cbuf, cbuf0, ckey, cval, csave, cdec>>
    /\ UNCHANGED <<phase, sorted, nrecs, hist>>

WalkNext ==
    \/ walk_start
    \/ walk_step

SpecWalk == WalkInit /\ [][WalkNext]_vars

\* the function runs on: no turn of its loop waits for anything
SpecWalkFair == SpecWalk /\ WF_vars(WalkNext)

\* C1: if save succeeds, decoding the buffer from its start yields the same
\* key bytes (padding excluded), the same value and total_len = 4 + key_len +
\* padding + 8; the offset save returned is 4 + key_len + padding and the
\* value is stored there.
C1_RoundTrip ==
    (cpc = "decoded" /\ csave.ok) =>
        /\ cdec.ok
        /\ cdec.val.json = ckey
        /\ cdec.val.value = cval
        /\ cdec.val.total_len = 4 + Len(ckey) + (8 - ((4 + Len(ckey)) % 8)) + 8
        /\ csave.val = 4 + Len(ckey) + (8 - ((4 + Len(ckey)) % 8))
        /\ Slice(cbuf, csave.val, csave.val + 8) = f64_to_ne_bytes(cval)

C1_Witness ==
    /\ cpc = "decoded" /\ csave.ok /\ cdec.ok
    /\ Len(ckey) = 4 /\ cval = 3 /\ Len(cbuf) > 24

----------------------------------------------------------------------------
(* Region claims, one caller *)

Idle == \A t \in callers : pc[t] = "idle"

Used == load_used(slot, file).val

InsertedKeys == {k \in RegionKeys : expect[k] # NoVal}

\* C2: after any sequence of fetch_entry / upsert_entry calls, scanning the
\* region from HEADER_SIZE to used decodes exactly one record per distinct
\* key, in first-insertion order, each with the value last written for its
\* key; load_value at the key's stored position returns that value.
C2_ScanMatchesWrites ==
    (callers = {1} /\ Idle /\ slot.some) =>
        LET sc == scan_records(file)
        IN  /\ sc.ok
            /\ Len(sc.val) = Cardinality(InsertedKeys)
            /\ [i \in 1..Len(sc.val) |-> sc.val[i].json] = order
            /\ \A i \in 1..Len(sc.val) :
                 /\ sc.val[i].value = expect[order[i]]
                 /\ \A j \in 1..Len(sc.val) : sc.val[i].json = sc.val[j].json => i = j
            /\ \A k \in InsertedKeys :
                 /\ positions[k] # NoPos
                 /\ load_value(slot, file, positions[k]) = Ok(expect[k])

C2_Witness ==
    /\ callers = {1} /\ Idle /\ slot.some
    /\ Len(order) = 3
    /\ order[1] = <<98, 99, 100, 101>>
    /\ expect[order[1]] = 2 /\ expect[order[2]] = 0 /\ expect[order[3]] = 3
    /\ ret[1] = Ok(2)

\* C3: in every state reachable by fetch_entry, upsert_entry and growth, the
\* header's used value (a stored 0 read as HEADER_SIZE) is at most the
\* capacity of the mapping.
C3_UsedWithinCapacity ==
    (callers = {1} /\ slot.some) =>
        LET stored == u32_from_ne_bytes(Slice(file, 0, SIZE_U32))
        IN  /\ stored.hi = 0
            /\ (IF stored.lo = 0 THEN HEADER_SIZE ELSE stored.lo) <= slot.cap

C3_Witness ==
    /\ callers = {1} /\ slot.some
    /\ Used = 64 /\ slot.cap = 128
    /\ Len(order) = 3

\* C4: after a successful growth the header's used value is unchanged and
\* load_value at every offset an append returned before gives the value it
\* gave right before the growth.
C4_GrowthPreservesOffsets ==
    \A t \in callers :
        (callers = {1} /\ pc[t] = "ex_weak") =>
            /\ slot.some
            /\ load_used(slot, file) = snap.used
            /\ \A k \in RegionKeys :
                 positions[k] # NoPos =>
                    /\ snap.vals[k].ok
                    /\ load_value(slot, file, positions[k]) = snap.vals[k]

C4_Witness ==
    /\ callers = {1} /\ pc[1] = "ex_weak" /\ slot.some
    /\ slot.cap = 64
    /\ snap.used = Ok(24)
    /\ \E k \in RegionKeys : positions[k] # NoPos /\ snap.vals[k] = Ok(3)

----------------------------------------------------------------------------
(* Region claims, concurrent callers *)

\* caller t attempts a lock that another operation holds in a conflicting mode
ConflictingAttempt(t) ==
    \/ AcquireRead(t) /\ lock.w # 0
    \/ AcquireWrite(t) /\ (lock.w # 0 \/ lock.r # {})

\* C5: a read attempted while the region is held exclusively, or a mutation
\* attempted while it is held at all, returns the concurrency-conflict error
\* at once, without reading or changing the region.
C5_FailFast ==
    [][\A t \in callers :
         ConflictingAttempt(t) =>
            /\ ret'[t] = Err("ConcurrentAccess")
            /\ pc'[t] = "idle"
            /\ UNCHANGED <<file, slot, lock>>]_vars

\* C6: from the release of the old mapping until the new mapping is
\* installed, no other caller's read, write or growth acquires access to the
\* region or takes effect on it.
C6_GrowthExclusive ==
    [][\A t \in callers, u \in callers :
         (t # u /\ pc[t] \in GrowthWindow /\ pc'[t] \in GrowthWindow
              /\ (pc'[u] # pc[u] \/ lock' # lock))
            => /\ ~(u \in lock'.r) /\ lock'.w # u
               /\ UNCHANGED <<file, slot>>]_vars

\* the growth of one caller is abandoned because another caller's read held
\* the lock when the new mapping was to be installed: the region stays unmapped
C6_GrowthLost ==
    /\ \A t \in callers : pc[t] = "idle"
    /\ ~slot.some
    /\ \E t \in callers : ret[t] = Err("ConcurrentAccess")

----------------------------------------------------------------------------
(* Aggregate map: what the histories say *)

\* the record a process_buffer step merged: the one hist gained
Merged == CHOOSE r \in BagToSet(hist') : CopiesIn(r, hist') > CopiesIn(r, hist)

\* the dedup key of a record: the key string, and the pid of its region
\* exactly when the type is gauge and the mode is none of min, max, livesum
DedupKey(r) ==
    [json |-> r.json,
     pid |-> IF /\ r.file_info.type_ = "gauge"
                /\ r.file_info.multiprocess_mode \notin {"min", "max", "livesum"}
             THEN Some(r.file_info.pid) ELSE None]

\* the records merged so far that fall on the dedup key k
RecordsOf(k) == {r \in BagToSet(hist) : DedupKey(r) = k}

\* C7: when an incoming record with value b hits an existing entry with value
\* a, the entry's value becomes min(a,b) for a gauge/min entry, max(a,b) for
\* gauge/max, a+b for gauge/livesum, b for a gauge entry in any other mode,
\* and a+b for an entry of any non-gauge type whatever its mode.
C7_MergePolicy ==
    [][hist' # hist =>
        LET b == Merged.value
            k == DedupKey(Merged)
        IN  k \in DOMAIN emap =>
              LET a == emap[k].value
                  t == emap[k].type_
                  m == emap[k].multiprocess_mode
              IN  /\ k \in DOMAIN emap'
                  /\ emap'[k].value =
                       IF t = "gauge" /\ m = "min" THEN (IF f64_lt(b, a) THEN b ELSE a)
                       ELSE IF t = "gauge" /\ m = "max" THEN (IF f64_lt(a, b) THEN b ELSE a)
                       ELSE IF t = "gauge" /\ m = "livesum" THEN f64_add(a, b)
                       ELSE IF t = "gauge" THEN b
                       ELSE f64_add(a, b)]_vars

\* a gauge/min entry that kept 1.0 against 2^53 and 2.0
C7_Witness ==
    \E k \in DOMAIN emap :
        /\ emap[k] = [multiprocess_mode |-> "min", type_ |-> "gauge", value |-> <<0, 1>>]
        /\ {r.value : r \in RecordsOf(k)} = AggValues
        /\ \A r \in RecordsOf(k) : r.file_info.multiprocess_mode = "min"
                                   /\ r.file_info.type_ = "gauge"

\* all records of the dedup key k come from regions of one type and mode
Uniform(k) ==
    \A r1, r2 \in RecordsOf(k) :
        /\ r1.file_info.type_ = r2.file_info.type_
        /\ r1.file_info.multiprocess_mode = r2.file_info.multiprocess_mode

\* "min", "max", "sum" (livesum and the non-gauge types) or "last"
PolicyOf(k) ==
    LET r == CHOOSE r \in RecordsOf(k) : TRUE
        t == r.file_info.type_
        m == r.file_info.multiprocess_mode
    IN  IF t # "gauge" THEN "sum"
        ELSE IF m = "livesum" THEN "sum"
        ELSE IF m \in {"min", "max"} THEN m
        ELSE "last"

RECURSIVE Copies(_)
Copies(S) ==
    IF S = {} THEN 0
    ELSE LET r == CHOOSE r \in S : TRUE
         IN  CopiesIn(r, hist) + Copies(S \ {r})

Repeat(v, n) == [i \in 1..n |-> v]

\* the values merged into k, in ascending order
RECURSIVE AscendingFrom(_, _)
AscendingFrom(k, i) ==
    IF i > Len(F64Values) THEN <<>>
    ELSE Repeat(F64Values[i], Copies({r \in RecordsOf(k) : r.value = F64Values[i]}))
         \o AscendingFrom(k, i + 1)

Ascending(k) == AscendingFrom(k, 1)

Combine(p, a, b) ==
    CASE p = "min" -> (IF f64_lt(b, a) THEN b ELSE a)
      [] p = "max" -> (IF f64_lt(a, b) THEN b ELSE a)
      [] p = "sum" -> f64_add(a, b)

RECURSIVE Fold(_, _, _)
Fold(p, acc, seq) ==
    IF seq = <<>> THEN acc ELSE Fold(p, Combine(p, acc, Head(seq)), Tail(seq))

\* the exact sum of the values seq[i], i in I, as limbs, without rounding
RECURSIVE ExactSum(_, _)
ExactSum(seq, I) ==
    IF I = {} THEN <<0, 0>>
    ELSE LET i == CHOOSE i \in I : TRUE
             s == ExactSum(seq, I \ {i})
             lo == s[2] + seq[i][2]
         IN  <<s[1] + seq[i][1] + (lo \div Limb), lo % Limb>>

\* whatever the order of merging, no addition rounds
AllPartialSumsExact(seq) ==
    \A I \in SUBSET DOMAIN seq :
        LET s == ExactSum(seq, I) IN f64_round(s[1], s[2]) = s

\* C8 as stated: for min, max, livesum and sum the final value of every key is
\* the same for every order in which its records are merged, i.e. it is the
\* value merging them in ascending order gives.
C8_OrderIndependent ==
    \A k \in DOMAIN emap :
        (Uniform(k) /\ PolicyOf(k) \in {"min", "max", "sum"}) =>
            emap[k].value = Fold(PolicyOf(k), Head(Ascending(k)), Tail(Ascending(k)))

\* C8 amended: the final value of a key is the same for every merge order for
\* min and max, for any two records under livesum and sum (merging is
\* commutative), and for livesum and sum of more records when every partial
\* sum of the key's values is exactly representable as f64.
C8_OrderIndependentExact ==
    \A k \in DOMAIN emap :
        (/\ Uniform(k)
         /\ PolicyOf(k) \in {"min", "max", "sum"}
         /\ \/ PolicyOf(k) \in {"min", "max"}
            \/ Len(Ascending(k)) <= 2
            \/ AllPartialSumsExact(Ascending(k))) =>
            emap[k].value = Fold(PolicyOf(k), Head(Ascending(k)), Tail(Ascending(k)))

\* a counter key that summed 1.0, 1.0 and 2.0 to 4.0
C8_Witness ==
    \E k \in DOMAIN emap :
        /\ Uniform(k)
        /\ PolicyOf(k) = "sum"
        /\ Ascending(k) = << <<0, 1>>, <<0, 1>>, <<0, 2>> >>
        /\ emap[k].value = <<0, 4>>

\* C9: the dedup key of a record carries the pid of its region exactly when
\* the type is gauge and the mode is none of min, max, livesum: the entries of
\* the map are exactly the dedup keys of the records merged, so the same key
\* string from two regions with different pids gives two entries, each with a
\* value of its own pid's records, in that case and one entry otherwise.
C9_PidInKey ==
    /\ DOMAIN emap = {DedupKey(r) : r \in BagToSet(hist)}
    /\ \A r1, r2 \in BagToSet(hist) :
         (/\ r1.json = r2.json
          /\ r1.file_info.pid # r2.file_info.pid
          /\ r1.file_info.type_ = r2.file_info.type_
          /\ r1.file_info.multiprocess_mode = r2.file_info.multiprocess_mode) =>
            LET k1 == [json |-> r1.json, pid |-> Some(r1.file_info.pid)]
                k2 == [json |-> r2.json, pid |-> Some(r2.file_info.pid)]
                k0 == [json |-> r1.json, pid |-> None]
            IN  IF /\ r1.file_info.type_ = "gauge"
                   /\ r1.file_info.multiprocess_mode \notin {"min", "max", "livesum"}
                THEN /\ k1 \in DOMAIN emap /\ k2 \in DOMAIN emap
                     /\ emap[k1].value \in {r.value : r \in RecordsOf(k1)}
                     /\ emap[k2].value \in {r.value : r \in RecordsOf(k2)}
                     /\ \A r \in RecordsOf(k1) : r.file_info.pid = r1.file_info.pid
                ELSE /\ k0 \in DOMAIN emap
                     /\ {r1, r2} \subseteq RecordsOf(k0)

\* "b" from pids "10" and "2" in gauge/all regions kept apart, and from the
\* same pids in counter regions merged into one entry
C9_Witness ==
    /\ {[json |-> <<98>>, pid |-> Some(<<49, 48>>)],
        [json |-> <<98>>, pid |-> Some(<<50>>)],
        [json |-> <<98>>, pid |-> None]} \subseteq DOMAIN emap
    /\ emap[[json |-> <<98>>, pid |-> Some(<<49, 48>>)]].value = <<0, 1>>
    /\ emap[[json |-> <<98>>, pid |-> Some(<<50>>)]].value = <<0, 2>>
    /\ emap[[json |-> <<98>>, pid |-> None]].type_ = "counter"

\* byte-lexicographic order of strings
StrLess(a, b) ==
    \E i \in 1..(Len(a) + 1) :
        /\ \A j \in 1..(i - 1) : j <= Len(b) /\ a[j] = b[j]
        /\ \/ i = Len(a) + 1 /\ i <= Len(b)
           \/ i <= Len(a) /\ i <= Len(b) /\ a[i] < b[i]

\* (key string, pid) order, an absent pid before any present pid
KeyLess(x, y) ==
    \/ StrLess(x.json, y.json)
    \/ /\ x.json = y.json
       /\ \/ x.pid = None /\ y.pid # None
          \/ x.pid # None /\ y.pid # None /\ StrLess(x.pid[1], y.pid[1])

\* C10: into_sorted returns every entry of the map exactly once, strictly
\* ascending by (key string, pid), byte-lexicographic, an absent pid first;
\* the list is therefore the same whatever the insertion and iteration order.
C10_SortedOutput ==
    phase = "sorted" =>
        /\ Len(sorted) = Cardinality(DOMAIN emap)
        /\ \A k \in DOMAIN emap :
             \E i \in 1..Len(sorted) : sorted[i] = [data |-> k, meta |-> emap[k]]
        /\ \A i, j \in 1..Len(sorted) :
             i < j => KeyLess(sorted[i].data, sorted[j].data)

\* "ab" without pid, then with pid "10", then with pid "2"
C10_Witness ==
    /\ phase = "sorted"
    /\ Len(sorted) = 3
    /\ sorted[1].data = [json |-> <<97, 98>>, pid |-> None]
    /\ sorted[2].data = [json |-> <<97, 98>>, pid |-> Some(<<49, 48>>)]
    /\ sorted[3].data = [json |-> <<97, 98>>, pid |-> Some(<<50>>)]

----------------------------------------------------------------------------
C20_FromSlice ==
    cpc \in {"decoded", "decoded_damaged"} =>
        IF Len(cbuf) < 4 THEN ~cdec.ok
        ELSE IF cbuf[4] >= 128 THEN cdec = Err("KeyLength")
        ELSE LET L == cbuf[1] + 256 * cbuf[2] + 65536 * cbuf[3]
                      + 16777216 * cbuf[4]
             IN  IF L > Len(cbuf) \/ 4 + L + (8 - ((4 + L) % 8)) + 8 > Len(cbuf)
                 THEN cdec = Err("OutOfBounds")
                 ELSE LET at == 4 + L + (8 - ((4 + L) % 8))
                      IN  /\ cdec.ok
                          /\ cdec.val.json = SubSeq(cbuf, 5, 4 + L)
                          /\ cdec.val.value =
                               f64_from_ne_bytes(SubSeq(cbuf, at + 1, at + 8))
                          /\ cdec.val.total_len = at + 8
                          /\ at + 8 <= Len(cbuf)

C20_Witness ==
    /\ cpc = "decoded_damaged" /\ csave.ok /\ Len(ckey) = 3
    /\ cdec.ok /\ cdec.val.json = <<97>> /\ cdec.val.value = cval /\ cval = 2

----------------------------------------------------------------------------
(* mmap/inner.rs claims *)

\* the header's used value of the region the last direct call was made on
UsedBefore == load_used(snap.slot, snap.file).val

\* C14: load_value(offset) and save_value(offset, v) return an error, and
\* save_value changes nothing, whenever offset < HEADER_SIZE or the 8 bytes
\* at offset end beyond the header's used length.
C14_ValueBoundsChecked ==
    (op[1].name \in {"load_value", "save_value"}
        /\ (loc[1].pos < 8 \/ loc[1].pos + 8 > UsedBefore))
    => (~ret[1].ok /\ file = snap.file)

\* C15: initialize_entry on a region where used + total_len(key.len())
\* exceeds the capacity returns an error and leaves used and every byte
\* unchanged; initialize_entry never changes the capacity or the file length.
C15_AppendChecksCapacity ==
    op[1].name = "initialize_entry" =>
        /\ slot = snap.slot
        /\ Len(file) = Len(snap.file)
        /\ (UsedBefore + 4 + Len(op[1].key) + (8 - ((4 + Len(op[1].key)) % 8)) + 8
                > snap.slot.cap)
           => (~ret[1].ok /\ file = snap.file)

C15_Witness ==
    /\ op[1].name = "initialize_entry" /\ op[1].key = <<98, 99, 100, 101>>
    /\ UsedBefore = 24 /\ snap.slot.cap = 40 /\ snap.file[40] = 255
    /\ ~ret[1].ok /\ file = snap.file

----------------------------------------------------------------------------
(* Growth requests (mmap.rs, expand_to_fit called directly, one caller) *)

\* caller t is inside an expand_to_fit call made directly with target x
InExpand(t, x) ==
    /\ pc[t] # "idle" /\ op[t].name = "expand_to_fit"
    /\ loc[t].from = "direct" /\ loc[t].target = x

\* C16: expand_to_fit(target) with target below the current capacity returns
\* an error and leaves the capacity, the mapping, used and the contents as
\* they were: every step of such a call leaves file and slot alone, and the
\* call ends with the "can't reduce" argument error.
C16_NoShrink ==
    [][\A t \in callers : \A x \in Targets :
         (callers = {1} /\ InExpand(t, x) /\ slot.some /\ x < capacity(slot)) =>
            /\ file' = file /\ slot' = slot /\ positions' = positions
            /\ pc'[t] \in {"ex_cap1", "idle"}
            /\ pc'[t] = "idle" => ret'[t] = Err("Arg")]_vars

C16_Witness ==
    /\ callers = {1} /\ pc[1] = "idle" /\ ret[1] = Err("Arg")
    /\ capacity(slot) = 32 /\ Used = 24

\* C17 as stated: once expand_to_fit(x) has succeeded, every further
\* expand_to_fit(x) succeeds without unmap / remap, leaving capacity, used
\* and contents unchanged.
C17_Idempotent ==
    [][\A t \in callers : \A x \in Targets :
         (callers = {1} /\ InExpand(t, x) /\ x \in snap.fit) =>
            /\ file' = file /\ slot' = slot
            /\ pc'[t] = "idle" => ret'[t] = Ok(TRUE)]_vars

\* C17, amended: a successful expand_to_fit(x) leaves the capacity at x, and
\* every further expand_to_fit(x) made while the capacity is still x succeeds
\* without unmap / remap, leaving capacity, used and contents unchanged.
C17_IdempotentWhileCapacityKept ==
    [][\A t \in callers : \A x \in Targets :
         (callers = {1} /\ InExpand(t, x)) =>
            /\ (x \in snap'.fit /\ x \notin snap.fit) => capacity(slot') = x
            /\ (x \in snap.fit /\ slot.some /\ capacity(slot) = x) =>
                 /\ file' = file /\ slot' = slot
                 /\ pc'[t] \in {"ex_cap1", "ex_cap2", "ex_cap3", "idle"}
                 /\ pc'[t] = "idle" => ret'[t] = Ok(TRUE)]_vars

C17_Witness ==
    /\ callers = {1} /\ pc[1] = "ex_cap3" /\ InExpand(1, 24)
    /\ 24 \in snap.fit /\ capacity(slot) = 24 /\ loc[1].new_cap = 24

----------------------------------------------------------------------------
(* Scanning whole files *)

\* C11: processing a source whose used header is greater than the length
\* of the source returns the parse (corruption) error and leaves the map
\* exactly as it was before: no record of that source is merged.
C11_CorruptUsedRejected ==
    [][(nrecs' = nrecs + 1 /\ Len(file') >= 8
          /\ (file'[4] >= 128
              \/ file'[1] + 256 * file'[2] + 65536 * file'[3]
                 + 16777216 * file'[4] > Len(file')))
       => (ret'[1] = Err("PromParsing") /\ emap' = emap)]_vars

C11_Witness ==
    /\ nrecs = 2 /\ ret = <<Err("PromParsing")>>
    /\ Len(file) = 40 /\ file[1] = 41 /\ file[4] = 0
    /\ Cardinality(DOMAIN emap) = 1

----------------------------------------------------------------------------
(* Text exposition *)

\* the keys of the table are well formed, with as many labels as values
GoodKeys == {KeyOf(r) : r \in ExpoKeyTable}

\* the family the k-th record of the sorted list was written with
FamilyAt(k) ==
    (CHOOSE r \in ExpoKeyTable : KeyOf(r) = sorted[k].data.json).family_name

\* the index, in the lines of the output, of the k-th metric line
SamplePos(k) ==
    CHOOSE p \in DOMAIN ret[1].val :
        /\ Len(ret[1].val[p]) = 5
        /\ Cardinality({q \in 1..p : Len(ret[1].val[q]) = 5}) = k

\* C12: the text exposition returns output only if every record's key can
\* be decoded and has as many labels as values (then every record has its
\* metric line); if one record fails this the call returns the one
\* processed-count error and no output, however many records were valid.
C12_AllOrNothing ==
    phase = "text" =>
        IF \A k \in DOMAIN sorted : sorted[k].data.json \in GoodKeys
        THEN /\ ret[1].ok
             /\ Cardinality({p \in DOMAIN ret[1].val : Len(ret[1].val[p]) = 5})
                  = Len(sorted)
        ELSE ret[1] = Err("Runtime")

C12_Witness ==
    /\ phase = "text" /\ ret[1] = Err("Runtime") /\ Len(sorted) = 3
    /\ Cardinality({k \in DOMAIN sorted : sorted[k].data.json \in GoodKeys}) = 2
    /\ \E k \in DOMAIN sorted : sorted[k].data.json = MismatchKey

\* in the sorted list the records of one family are next to each other
Contiguous ==
    \A i, k \in DOMAIN sorted :
        (i < k /\ FamilyAt(i) = FamilyAt(k)) =>
            \A j \in i..k : FamilyAt(j) = FamilyAt(i)

\* the output has exactly one HELP line for each family of the list
OneHeaderPerFamily ==
    \A k \in DOMAIN sorted :
        Cardinality({p \in DOMAIN ret[1].val :
                        ret[1].val[p] = <<"HELP", FamilyAt(k)>>}) = 1

\* the HELP and TYPE lines of a record's family stand right before its
\* metric line exactly when the record before it is of another family
HeaderWhenFamilyChanges ==
    \A k \in DOMAIN sorted :
        LET p == SamplePos(k)
            out == ret[1].val
        IN  IF k = 1 \/ FamilyAt(k) # FamilyAt(k - 1)
            THEN /\ p > 2
                 /\ out[p - 2] = <<"HELP", FamilyAt(k)>>
                 /\ out[p - 1] = <<"TYPE", FamilyAt(k), sorted[k].meta.type_>>
            ELSE p > 1 /\ Len(out[p - 1]) = 5

\* C13 as stated: in the sorted list the records of one family are
\* contiguous, so the text has exactly one HELP/TYPE pair per family, before
\* the family's first metric line; a header is written exactly when the
\* family differs from that of the record written before.
C13_OneHeaderPair ==
    (phase = "text" /\ ret[1].ok) =>
        Contiguous /\ OneHeaderPerFamily /\ HeaderWhenFamilyChanges

\* every key of the sorted list is in the compact form, without whitespace
CompactKeys ==
    \A k \in DOMAIN sorted :
        \E r \in ExpoKeyTable : r.lead = <<>> /\ KeyOf(r) = sorted[k].data.json

\* C13, amended: a header is written exactly when the family differs from
\* that of the record written before; when all keys are in the compact form
\* the records of one family are contiguous and the text has exactly one
\* HELP/TYPE pair per family.
C13_OneHeaderPairCompact ==
    (phase = "text" /\ ret[1].ok) =>
        /\ HeaderWhenFamilyChanges
        /\ CompactKeys => (Contiguous /\ OneHeaderPerFamily)

C13_Witness ==
    /\ phase = "text" /\ ret[1].ok /\ CompactKeys /\ Len(sorted) = 3
    /\ FamilyAt(1) = <<97>> /\ FamilyAt(2) = <<97>> /\ FamilyAt(3) = <<98>>
    /\ Len(ret[1].val) = 7

----------------------------------------------------------------------------
(* Binary exposition *)

\* the label pairs of the k-th record of the sorted list as its key was
\* written, the le / quantile pair left out
GroupLabels(k) ==
    LET r == CHOOSE r \in ExpoKeyTable : KeyOf(r) = sorted[k].data.json
    IN  SelectSeq([i \in DOMAIN r.labels |-> <<r.labels[i], trim_quotes(r.values[i])>>],
                  LAMBDA l : l[1] \notin {LE, QUANTILE})

\* the records of the sorted list that take part in the exposition
Exposed == {k \in DOMAIN sorted : sorted[k].data.json \in GoodKeys}

\* C18: the binary exposition has exactly one family message for each
\* combination of family and label set (le / quantile left out) among the
\* records: no two combinations share a message, none overwrites another's,
\* and every combination of the input has its message.
C18_OneMessagePerGroup ==
    (phase = "protobuf" /\ ret[1].ok) =>
        /\ Len(ret[1].val)
             = Cardinality({<<FamilyAt(k), GroupLabels(k)>> : k \in Exposed})
        /\ \A k \in Exposed :
             \E i \in DOMAIN ret[1].val :
                /\ ret[1].val[i].name = FamilyAt(k)
                /\ ret[1].val[i].metric[1].label = GroupLabels(k)

----------------------------------------------------------------------------
(* Record layout arithmetic *)

\* key lengths at the top of the range whose sums a 32-bit signed integer
\* still holds: one for each residue modulo 8
HighLens == {I32_MAX - 20 - k : k \in 0..7}

\* the layout of a record with a key of n bytes is aligned
Aligned(n) ==
    /\ padding_len(n) \in 1..8
    /\ padding_len(n) = 8 - ((4 + n) % 8)
    /\ calc_value_offset(n) = Ok(4 + n + padding_len(n))
    /\ calc_total_len(n) = Ok(4 + n + padding_len(n) + 8)
    /\ calc_value_offset(n).val % 8 = 0
    /\ calc_total_len(n).val % 8 = 0

\* C21: for every key length n the padding 8 - (4 + n) % 8 lies in 1..8, and
\* the value offset 4 + n + padding and the total length 4 + n + padding + 8
\* are multiples of 8; a successful save returns that offset and the decoded
\* entry has that total length.
C21_LayoutAligned ==
    /\ \A n \in (0..MaxKeyLen) \cup HighLens : Aligned(n)
    /\ Aligned(Len(ckey))
    /\ (cpc = "saved" /\ csave.ok) =>
           csave.val = 4 + Len(ckey) + padding_len(Len(ckey)) /\ csave.val % 8 = 0
    /\ (cpc = "decoded" /\ cdec.ok) => cdec.val.total_len % 8 = 0

\* a key of 4 bytes, whose padding is the full 8 bytes, has been saved and
\* decoded
C21_Witness ==
    /\ cpc = "decoded" /\ cdec.ok /\ csave.ok
    /\ Len(ckey) = 4
    /\ padding_len(Len(ckey)) = 8
    /\ csave.val = 16
    /\ cdec.val.total_len = 24

----------------------------------------------------------------------------
(* merge_or_store: what one call changes *)

\* the merge policy of an entry, by its type and mode
PolicyOfEntry(e) ==
    IF e.type_ # "gauge" THEN "sum"
    ELSE IF e.multiprocess_mode = "livesum" THEN "sum"
    ELSE IF e.multiprocess_mode \in {"min", "max"} THEN e.multiprocess_mode
    ELSE "last"

\* C24: merge_or_store on a key absent from the map adds exactly one entry
\* holding the record's metadata and changes no existing entry; on a key
\* present in the map the number of entries stays, the record's value is
\* combined into that entry by the entry's merge policy, and every other
\* entry stays as it was.
C24_MergeOrStoreFrame ==
    [][(phase = "map" /\ hist' # hist) =>
        LET r == Merged
            k == DedupKey(r)
        IN  IF k \notin DOMAIN emap
            THEN /\ DOMAIN emap' = DOMAIN emap \cup {k}
                 /\ Cardinality(DOMAIN emap') = Cardinality(DOMAIN emap) + 1
                 /\ emap'[k] = [multiprocess_mode |-> r.file_info.multiprocess_mode,
                                type_ |-> r.file_info.type_,
                                value |-> r.value]
                 /\ \A o \in DOMAIN emap : emap'[o] = emap[o]
            ELSE /\ DOMAIN emap' = DOMAIN emap
                 /\ emap'[k] = [emap[k] EXCEPT !.value =
                                  IF PolicyOfEntry(emap[k]) = "last" THEN r.value
                                  ELSE Combine(PolicyOfEntry(emap[k]), @, r.value)]
                 /\ \A o \in DOMAIN emap \ {k} : emap'[o] = emap[o]]_vars

\* a record has been merged into an entry of a map that holds another entry
\* as well
C24_Witness ==
    /\ phase = "map"
    /\ Cardinality(DOMAIN emap) = 2
    /\ BagCardinality(hist) = 3

----------------------------------------------------------------------------
(* The pid label of a text metric line *)

\* the labels of the k-th record of the sorted list as its key was written,
\* each with its value as the line shows it
OwnLabels(k) ==
    LET r == CHOOSE r \in ExpoKeyTable : KeyOf(r) = sorted[k].data.json
    IN  [i \in DOMAIN r.labels |-> <<r.labels[i], r.values[i]>>]

\* C22: in a text metric line the pid label is there exactly when the
\* record's key carries a pid: alone between the braces when the record has
\* no labels, after the record's own labels when it has some; a record whose
\* key carries no pid has its own labels only, and no braces when it has
\* none.
C22_PidLabel ==
    (phase = "text" /\ ret[1].ok) =>
        \A k \in DOMAIN sorted :
            LET line == ret[1].val[SamplePos(k)]
                pid == sorted[k].data.pid
            IN  IF pid # None
                THEN /\ line[3] = OwnLabels(k) \o << <<<<112, 105, 100>>, quoted(pid[1])>> >>
                     /\ line[5]
                ELSE /\ line[3] = OwnLabels(k)
                     /\ line[5] = (OwnLabels(k) # <<>>)

\* a text with the line of a record with a pid and a label, of one with a
\* pid and no label, and of one without pid and without label
C22_Witness ==
    /\ phase = "text" /\ ret[1].ok /\ Len(sorted) = 3
    /\ \E i, j, k \in DOMAIN sorted :
          /\ sorted[i].data.pid # None /\ OwnLabels(i) # <<>>
          /\ Len(ret[1].val[SamplePos(i)][3]) = 2
          /\ sorted[j].data.pid # None /\ OwnLabels(j) = <<>>
          /\ Len(ret[1].val[SamplePos(j)][3]) = 1
          /\ sorted[k].data.pid = None /\ OwnLabels(k) = <<>>
          /\ ~ret[1].val[SamplePos(k)][5]

----------------------------------------------------------------------------
(* The scan loop ends *)

\* the length of the record whose length field stands at offset pos
RecordLenAt(pos) ==
    LET n == read_u32(file, pos).val.lo
    IN  4 + n + (8 - ((4 + n) % 8)) + 8

\* a turn of the loop either ends the function with its Result or moves pos
\* forward by the length of the record decoded at pos
TurnEndsOrAdvances ==
    pc = <<"loop">> =>
        \/ pc' = <<"done">> /\ Len(ret') = 1
        \/ /\ pc' = <<"loop">>
           /\ loc'[1].used = loc[1].used
           /\ loc'[1].pos = loc[1].pos + RecordLenAt(loc[1].pos)
           /\ loc'[1].pos - loc[1].pos >= 16
           /\ (loc'[1].pos - loc[1].pos) % 8 = 0
           /\ loc'[1].pos > loc[1].pos
           /\ loc'[1].pos <= loc[1].used

----------------------------------------------------------------------------
(* The region is append-only *)

\* the offsets (from 0) at which the file differs after the step
Changed == {i \in 0..(Len(file) - 1) : file'[i + 1] # file[i + 1]}

\* the value offsets of the records of the file, in scan order
RECURSIVE ValueOffsetsFrom(_)
ValueOffsetsFrom(pos) ==
    IF ~(pos + SIZE_U32 < Used) THEN <<>>
    ELSE LET n == read_u32(file, pos).val.lo
             pad == 8 - ((4 + n) % 8)
         IN  <<pos + 4 + n + pad>> \o ValueOffsetsFrom(pos + 4 + n + pad + 8)

\* C29: a successful append changes only the used field of the header and
\* the bytes from the old used to the new used, which is the old used plus
\* the record's total length; a successful save_value at a value offset an
\* append returned changes only the 8 value bytes of that record; every
\* other record keeps its key, padding and value.
C29_AppendOnly ==
    [][\A t \in callers :
         /\ (pc[t] = "ie" /\ pc'[t] = "fin_load") =>
               LET n == Len(op[t].key)
                   len == 4 + n + (8 - ((4 + n) % 8)) + 8
                   before == scan_records(file)
                   after == scan_records(file')
               IN  /\ Len(file') = Len(file)
                   /\ Used' = Used + len
                   /\ Used' > Used
                   /\ Changed \subseteq (0..(SIZE_U32 - 1)) \cup (Used..(Used' - 1))
                   /\ before.ok /\ after.ok
                   /\ Len(after.val) = Len(before.val) + 1
                   /\ SubSeq(after.val, 1, Len(before.val)) = before.val
         /\ (pc[t] = "ue_save" /\ pc'[t] = "idle" /\ ret'[t].ok) =>
               LET offsets == ValueOffsetsFrom(HEADER_SIZE)
                   before == scan_records(file)
                   after == scan_records(file')
               IN  /\ Len(file') = Len(file)
                   /\ \E i \in DOMAIN offsets : offsets[i] = loc[t].pos
                   /\ Changed \subseteq loc[t].pos..(loc[t].pos + SIZE_F64 - 1)
                   /\ Used' = Used
                   /\ \A i \in DOMAIN offsets :
                        /\ after.val[i].json = before.val[i].json
                        /\ offsets[i] # loc[t].pos => after.val[i] = before.val[i]]_vars

\* two records have been appended, and a third call, on the key of the
\* first one, has returned the value stored at that record's offset
C29_Witness ==
    /\ callers = {1} /\ Idle /\ slot.some
    /\ Len(order) = 2 /\ nops = 3
    /\ scan_records(file).ok
    /\ Len(scan_records(file).val) = 2
    /\ scan_records(file).val[1].value # scan_records(file).val[2].value
    /\ ret[1] = Ok(scan_records(file).val[1].value)
    /\ expect[order[1]] = scan_records(file).val[1].value

----------------------------------------------------------------------------
(* Growth policy of check_expand *)

\* the program points of check_expand after it has read used, up to the append
GrowthPoints == {"ce_cap", "ce_cap2", "ex_cap1", "ex_cap2", "ex_cap3", "ex_ptr",
                 "ex_cap4", "ex_take", "ex_file", "ex_remap", "ex_insert",
                 "ex_weak", "ie"}

\* the smallest cap * 2^k strictly greater than need
RECURSIVE SmallestDoubling(_, _)
SmallestDoubling(cap, need) ==
    IF cap = 0 \/ cap > need THEN cap ELSE SmallestDoubling(cap * 2, need)

\* the capacity of the mapping caller t works on: the one in the slot, or
\* the one it holds between take_inner and insert_inner
CapNow(t) == IF slot.some THEN capacity(slot) ELSE capacity(loc[t].held)

GrowthGoal(t) == SmallestDoubling(CapNow(t), loc[t].used + loc[t].entry_len)

\* C23: when fetch_entry or upsert_entry creates a record, every remap of
\* check_expand doubles the capacity, the append happens at the smallest
\* capacity old_capacity * 2^k strictly greater than used + total_len, and
\* after the append the capacity is greater than used.
C23_GrowthPolicy ==
    [][\A t \in callers :
         /\ (pc[t] = "ce_used" /\ pc'[t] = "ce_cap") =>
               LET n == Len(op[t].key)
               IN  GrowthGoal(t)' =
                     SmallestDoubling(capacity(slot),
                                      Used + 4 + n + (8 - ((4 + n) % 8)) + 8)
         /\ (pc[t] \in GrowthPoints /\ pc'[t] \in GrowthPoints
             /\ loc[t].from = "check_expand") =>
               GrowthGoal(t)' = GrowthGoal(t)
         /\ (pc[t] = "ex_take" /\ pc'[t] = "ex_file"
             /\ loc[t].from = "check_expand") =>
               loc[t].target = 2 * capacity(slot)
         /\ (pc[t] = "ex_insert" /\ pc'[t] = "ex_weak"
             /\ loc[t].from = "check_expand") =>
               capacity(slot') = loc[t].target
         /\ (pc[t] = "ie" /\ pc'[t] = "fin_load") =>
               /\ capacity(slot) = GrowthGoal(t)
               /\ capacity(slot) > loc[t].used + loc[t].entry_len
               /\ Used' = loc[t].used + loc[t].entry_len
               /\ capacity(slot') > Used']_vars

\* a record was appended after three doublings, where two doublings would
\* have given a capacity exactly equal to the new used
C23_Witness ==
    /\ callers = {1}
    /\ pc[1] = "fin_load"
    /\ loc[1].from = "check_expand"
    /\ loc[1].target = capacity(slot)
    /\ loc[1].used = HEADER_SIZE
    /\ Used = 4 * HEADER_SIZE
    /\ capacity(slot) = 8 * HEADER_SIZE

----------------------------------------------------------------------------
(* Growth under concurrent callers *)

\* C27: under every interleaving of the steps of concurrent callers, no
\* remap replaces a mapping by a smaller one, and used never exceeds the
\* capacity of the mapping in place.
C27_CapacityMonotone ==
    /\ [][\A t \in callers :
            (pc[t] = "ex_remap" /\ pc'[t] = "ex_insert") =>
               capacity(loc[t].held') >= capacity(loc[t].held)]_vars
    /\ [](slot.some => Used <= capacity(slot))

----------------------------------------------------------------------------
(* Operations after munmap *)

\* munmap has succeeded: no mapping is in place and none is being replaced
Unmapped == ~slot.some /\ \A t \in callers : pc[t] \notin GrowthWindow

\* the operations a host program can call on the region object
PublicOps == {"load_used", "save_used", "fetch_entry", "upsert_entry", "sync",
              "slice", "munmap"}

\* C28: after a successful munmap every later operation on the region object
\* (used, used=, fetch_entry, upsert_entry, sync, slice, munmap) returns the
\* unmapped-file error, and no step of it touches the file or installs a
\* mapping.
C28_UnmappedError ==
    [][Unmapped =>
         /\ file' = file
         /\ slot' = slot
         /\ \A t \in callers :
              (pc[t] # "idle" /\ pc'[t] = "idle" /\ op[t].name \in PublicOps) =>
                 ret'[t] = Err("UnmappedFile")]_vars

----------------------------------------------------------------------------
(* Buckets and quantiles of the binary exposition *)

\* the row of the key table the k-th record of the sorted list was written from
RowAt(k) == CHOOSE r \in ExpoKeyTable : KeyOf(r) = sorted[k].data.json

\* the number the k-th record carries in its label disc: a set of one
\* number, or empty when the label is absent or is no number (+Inf)
Bounds(k, disc) ==
    {parse_f64(trim_quotes(RowAt(k).values[i])).val :
        i \in {j \in DOMAIN RowAt(k).labels :
                 /\ RowAt(k).labels[j] = disc
                 /\ parse_f64(trim_quotes(RowAt(k).values[j])).ok}}

\* the sum of the values of the records S of the sorted list
RECURSIVE SumValues(_)
SumValues(S) ==
    IF S = {} THEN <<0, 0>>
    ELSE Bind(CHOOSE k \in S : TRUE, LAMBDA k :
              f64_add(sorted[k].meta.value, SumValues(S \ {k})))

\* the records of the given type that share the label set of a message
SharingLabels(type_name, label) ==
    {k \in Exposed : sorted[k].meta.type_ = type_name /\ GroupLabels(k) = label}

\* C25: a histogram message holds one bucket for each distinct finite le of
\* the records that share its label set, with the sum of the values of the
\* records of that bound as cumulative count; le = +Inf adds no bucket.
C25_BucketPerBound ==
    (phase = "protobuf" /\ ret[1].ok) =>
        \A i \in DOMAIN ret[1].val :
            ret[1].val[i].type = "histogram" =>
                LET bucket == ret[1].val[i].metric[1].histogram[1]
                    recs == SharingLabels("histogram", ret[1].val[i].metric[1].label)
                    bounds == UNION {Bounds(k, LE) : k \in recs}
                IN  /\ Len(bucket) = Cardinality(bounds)
                    /\ \A b \in bounds :
                         \E j \in DOMAIN bucket :
                            /\ bucket[j].upper_bound = Some(b)
                            /\ bucket[j].cumulative_count_float
                                 = Some(SumValues({k \in recs : Bounds(k, LE) = {b}}))

\* C26: a summary message holds one quantile entry for each distinct
\* quantile of the records that share its label set, whose quantile field is
\* that quantile and whose value is the sum of the values of the records of
\* that quantile; the _sum and _count records are summed into sample_sum and
\* sample_count.
C26_QuantilePerValue ==
    (phase = "protobuf" /\ ret[1].ok) =>
        \A i \in DOMAIN ret[1].val :
            ret[1].val[i].type = "summary" =>
                LET smry == ret[1].val[i].metric[1].summary[1]
                    recs == SharingLabels("summary", ret[1].val[i].metric[1].label)
                    counts == {k \in recs : ends_with(RowAt(k).metric_name, SUFFIX_COUNT)}
                    sums == {k \in recs : ends_with(RowAt(k).metric_name, SUFFIX_SUM)}
                    quantiles == UNION {Bounds(k, QUANTILE) : k \in recs \ (counts \cup sums)}
                IN  /\ Len(smry.quantile) = Cardinality(quantiles)
                    /\ \A q \in quantiles :
                         \E j \in DOMAIN smry.quantile :
                            /\ smry.quantile[j].quantile = Some(q)
                            /\ smry.quantile[j].value
                                 = Some(SumValues({k \in recs \ (counts \cup sums) :
                                                     Bounds(k, QUANTILE) = {q}}))
                    /\ sums # {} => smry.sample_sum = Some(SumValues(sums))
                    /\ counts # {} => smry.sample_count = Some(SumValues(counts))

====
